---- MODULE Spec2Model ----
(***************************************************************************)
(* env-loader-pro: the multi-source resolution and merge engine.           *)
(*                                                                         *)
(* Text is modelled character by character: a Python str is a sequence of  *)
(* one-character strings, so that the ${NAME} grammar, case folding and    *)
(* substring tests are computed rather than assumed.  A Python dict is an  *)
(* association list <<key, value>> in insertion order, because the code    *)
(* iterates dicts and the order is observable.                             *)
(***************************************************************************)
EXTENDS Integers, Sequences, FiniteSets, TLC

VARIABLES
    args,           \* load_env: the arguments of the call
    world,          \* load_env: the files, mounts, environment and clock it reads
    pc,             \* load_env: the position of the call in its pipeline
    policyManager,  \* load_env: the PolicyManager built for the call
    sources,        \* load_env: the bundle, source name -> dict
    origins,        \* load_env: Tracer._origins
    auditEntries,   \* load_env: ConfigAudit.entries
    cacheObj,       \* load_env: the Cache built for the call
    provIdx,        \* load_env: the provider the loop is at
    providerVars,   \* load_env: _load_from_providers' result so far
    merged,         \* load_env: the merged mapping
    raised,         \* load_env: the exception that left the call, if any
    fetched,        \* load_env: the providers whose get_all() the call has called
    mSources,       \* merge: the bundle passed to ConfigurationMerger.merge
    mPriorityOrder, \* merge: the priority_order argument (None or a list)
    mTracer,        \* merge: the merger's Tracer (enabled, _origins)
    mResult,        \* merge: what the call raised, and the mapping it returned
    pmPolicies,     \* policy: the policies argument of PolicyManager
    pmDefault,      \* policy: the default_policy argument
    pmProvider,     \* policy: the provider name of the call
    pmError,        \* policy: the class of the error handed to handle_error
    pmResult,       \* policy: get_policy's value and what handle_error raised
    pmOther,        \* policy: the same pairs supplied in another order, and the policy found
    xValue,         \* expand: the value passed to _expand_variables
    xCtx,           \* expand: the env_dict passed to _expand_variables
    xResult,        \* expand: what the call raised, and the text it returned
    xParsed,        \* expand: what _parse_dotenv made of the context read as a file
    xAgain,         \* expand: what expanding the results once more gave
    calls,          \* load_env: the number of calls begun so far
    refCall,        \* load_env: an earlier call, its arguments and what it returned
    theCache,       \* cache: one Cache object (ttl, enabled, _cache, _timestamps)
    clock,          \* cache, breaker: what time.time() returns
    lastCall,       \* cache: the last call made on the Cache and what it returned
    liveSets,       \* cache: per key, the last set() not invalidated since
    threads,        \* cache: per thread, the call it is in and the statement it is at
    breaker,        \* breaker: one CircuitBreaker object
    failures,       \* breaker: the failures recorded since the last success
    attempt         \* breaker: the last should_attempt() call and what it returned

loadVars ==
    <<args, world, pc, policyManager, sources, origins, auditEntries, cacheObj,
      provIdx, providerVars, merged, raised, fetched>>

mergeVars == <<mSources, mPriorityOrder, mTracer, mResult>>

policyVars == <<pmPolicies, pmDefault, pmProvider, pmError, pmResult, pmOther>>

expansionVars == <<xValue, xCtx, xResult, xParsed, xAgain>>

callVars == <<calls, refCall>>

cacheVars == <<theCache, clock, lastCall, liveSets, threads>>

breakerVars == <<breaker, failures, attempt>>

vars == <<loadVars, callVars, mergeVars, policyVars, expansionVars, cacheVars, breakerVars>>

\* what a call of load_env, of merge, of a PolicyManager method leaves alone
outsideLoad == <<breakerVars, cacheVars, callVars, mergeVars, policyVars, expansionVars>>

outsideMerge == <<breakerVars, cacheVars, loadVars, callVars, policyVars, expansionVars>>

outsidePolicy == <<breakerVars, cacheVars, loadVars, callVars, mergeVars, expansionVars>>

outsideExpand == <<breakerVars, cacheVars, loadVars, callVars, mergeVars, policyVars>>

outsideCache == <<breakerVars, loadVars, callVars, mergeVars, policyVars, expansionVars>>

(***************************************************************************)
(* Python dict (insertion ordered)                                         *)
(***************************************************************************)
EmptyDict == << >>

DictKeys(d) == { d[i][1] : i \in DOMAIN d }

DictHas(d, k) == k \in DictKeys(d)

DictGet(d, k) == d[CHOOSE i \in DOMAIN d : d[i][1] = k][2]

\* d[k] = v : an existing key keeps its position, a new key goes last
DictPut(d, k, v) ==
    IF DictHas(d, k)
    THEN [i \in DOMAIN d |-> IF d[i][1] = k THEN <<k, v>> ELSE d[i]]
    ELSE Append(d, <<k, v>>)

RECURSIVE DictUpdateFrom(_, _, _)
DictUpdateFrom(d, e, i) ==
    IF i > Len(e) THEN d
    ELSE DictUpdateFrom(DictPut(d, e[i][1], e[i][2]), e, i + 1)

\* d.update(e)
DictUpdate(d, e) == DictUpdateFrom(d, e, 1)

\* d.setdefault(k, v)
DictSetDefault(d, k, v) == IF DictHas(d, k) THEN d ELSE Append(d, <<k, v>>)

(***************************************************************************)
(* core/tracing.py : Origin and Tracer                                     *)
(***************************************************************************)
CLOUD_AZURE == "azure"
CLOUD_AWS == "aws"
SYSTEM == "system"
DOCKER == "docker"
K8S == "kubernetes"
FILE_ENV_SPECIFIC == "file.env"
FILE_BASE == "file"
SCHEMA_DEFAULT == "default"
UNKNOWN == "unknown"

NoOrigins == [k \in {} |-> UNKNOWN]

\* Tracer.record: nothing when disabled, else _origins[key] = origin
TracerRecord(enabled, orig, key, origin) ==
    IF ~enabled THEN orig
    ELSE [k \in DOMAIN orig \cup {key} |-> IF k = key THEN origin ELSE orig[k]]

RECURSIVE TracerRecordKeys(_, _, _, _, _)
\* for key in d.keys(): tracer.record(key, origin)
TracerRecordKeys(enabled, orig, d, origin, i) ==
    IF i > Len(d) THEN orig
    ELSE TracerRecordKeys(enabled, TracerRecord(enabled, orig, d[i][1], origin),
                          d, origin, i + 1)

(***************************************************************************)
(* settings.py : SOURCE_PRIORITY ; core/merger.py : ConfigurationMerger    *)
(***************************************************************************)
SOURCE_PRIORITY ==
    [cloud_providers |-> 1, system |-> 2, docker_k8s |-> 3,
     env_specific |-> 4, base_file |-> 5, schema_defaults |-> 6]

DefaultPriorityOrder ==
    <<"cloud_providers", "system", "docker_k8s", "env_specific", "base_file",
      "schema_defaults">>

UnrankedPriority == 999

\* key=lambda s: SOURCE_PRIORITY.get(s, 999)
PriorityKey(s) ==
    IF s \in DOMAIN SOURCE_PRIORITY THEN SOURCE_PRIORITY[s] ELSE UnrankedPriority

SeqToSet(s) == { s[i] : i \in DOMAIN s }

RECURSIVE InsertByKey(_, _, _)
\* stable insertion: x goes after every element whose key is <= its own
InsertByKey(x, s, i) ==
    IF i > Len(s) THEN Append(s, x)
    ELSE IF PriorityKey(s[i]) > PriorityKey(x)
         THEN SubSeq(s, 1, i - 1) \o <<x>> \o SubSeq(s, i, Len(s))
         ELSE InsertByKey(x, s, i + 1)

RECURSIVE SortedFrom(_, _, _)
SortedFrom(order, i, acc) ==
    IF i > Len(order) THEN acc
    ELSE SortedFrom(order, i + 1, InsertByKey(order[i], acc, 1))

\* sorted(priority_order, key=...) : ascending priority number, stable
SortedSources(order) == SortedFrom(order, 1, << >>)

\* ConfigurationMerger._get_origin_for_source
GetOriginForSource(name) ==
    CASE name = "cloud_providers" -> CLOUD_AZURE
      [] name = "system" -> SYSTEM
      [] name = "docker_k8s" -> DOCKER
      [] name = "env_specific" -> FILE_ENV_SPECIFIC
      [] name = "base_file" -> FILE_BASE
      [] name = "schema_defaults" -> SCHEMA_DEFAULT
      [] OTHER -> UNKNOWN

\* the set difference taken the wrong way round
UnknownSources_Swapped(srcs, order) == SeqToSet(order) \ DOMAIN srcs

\* set(sources.keys()) - set(priority_order)
UnknownSources(srcs, order) == DOMAIN srcs \ SeqToSet(order)

RECURSIVE MergeLoop(_, _, _, _, _, _)
\* the loop over sorted_sources: record origins, then merged.update(source)
MergeLoop(sorted, i, srcs, acc, orig, traceOn) ==
    IF i > Len(sorted) THEN [merged |-> acc, origins |-> orig]
    ELSE IF sorted[i] \notin DOMAIN srcs
         THEN MergeLoop(sorted, i + 1, srcs, acc, orig, traceOn)
         ELSE MergeLoop(sorted, i + 1, srcs,
                        DictUpdate(acc, srcs[sorted[i]]),
                        TracerRecordKeys(traceOn, orig, srcs[sorted[i]],
                                         GetOriginForSource(sorted[i]), 1),
                        traceOn)

\* An Optional[...] argument is << >> for None and <<x>> for the value x.
None == << >>

Some(x) == <<x>>

\* ConfigurationMerger.merge(sources, priority_order) with the tracer's state
Merge(srcs, priorityOrder, traceOn, orig) ==
    LET order == IF priorityOrder = None THEN DefaultPriorityOrder ELSE priorityOrder[1]
    IN  IF UnknownSources(srcs, order) # {}
        THEN [raised |-> "ConfigurationError", merged |-> EmptyDict, origins |-> orig]
        ELSE LET r == MergeLoop(SortedSources(order), 1, srcs, EmptyDict, orig,
                                traceOn)
             IN  [raised |-> "none", merged |-> r.merged, origins |-> r.origins]

(***************************************************************************)
(* Python str helpers                                                      *)
(***************************************************************************)
LowerOf ==
    [A |-> "a", B |-> "b", C |-> "c", D |-> "d", E |-> "e", F |-> "f", G |-> "g",
     H |-> "h", I |-> "i", J |-> "j", K |-> "k", L |-> "l", M |-> "m", N |-> "n",
     O |-> "o", P |-> "p", Q |-> "q", R |-> "r", S |-> "s", T |-> "t", U |-> "u",
     V |-> "v", W |-> "w", X |-> "x", Y |-> "y", Z |-> "z"]

\* str.lower()
Lower(s) == [i \in DOMAIN s |-> IF s[i] \in DOMAIN LowerOf THEN LowerOf[s[i]] ELSE s[i]]

\* a in b : a occurs in b as a contiguous substring (the empty string always does)
Contains(a, b) ==
    \E i \in 0..(Len(b) - Len(a)) : \A j \in 1..Len(a) : b[i + j] = a[j]

\* variable names used in the explored inputs
kA == <<"A">>
kB == <<"B">>
kC == <<"C">>

\* the text ${name}
Ref(name) == <<"$", "{">> \o name \o <<"}">>

(***************************************************************************)
(* core/policy.py : FailurePolicy and PolicyManager                        *)
(***************************************************************************)
FAIL == "fail"
WARN == "warn"
FALLBACK == "fallback"

FailurePolicies == {FAIL, WARN, FALLBACK}

sFail == <<"f", "a", "i", "l">>
sWarn == <<"w", "a", "r", "n">>
sFallback == <<"f", "a", "l", "l", "b", "a", "c", "k">>

\* FailurePolicy(policy_str.lower()), falling back to the default on ValueError
ParsePolicy(policyStr, defaultPolicy) ==
    LET l == Lower(policyStr)
    IN  IF l = sFail THEN FAIL
        ELSE IF l = sWarn THEN WARN
        ELSE IF l = sFallback THEN FALLBACK
        ELSE defaultPolicy

RECURSIVE BuildPolicies(_, _, _, _)
BuildPolicies(given, i, defaultPolicy, acc) ==
    IF i > Len(given) THEN acc
    ELSE BuildPolicies(given, i + 1, defaultPolicy,
                       DictPut(acc, given[i][1], ParsePolicy(given[i][2], defaultPolicy)))

\* PolicyManager.__init__(policies=None, default_policy="warn")
NewPolicyManager(policies, defaultArg) ==
    LET defaultPolicy == IF defaultArg = None THEN WARN ELSE defaultArg[1]
    IN  [policies |-> IF policies = None THEN EmptyDict
                      ELSE BuildPolicies(policies[1], 1, defaultPolicy, EmptyDict),
         default_policy |-> defaultPolicy]

\* only the configured key is looked for in the provider name
PartialMatch_KeyInNameOnly(key, providerName) ==
    Contains(Lower(key), Lower(providerName))

\* the partial-match test of get_policy
PartialMatch(key, providerName) ==
    \/ Contains(Lower(key), Lower(providerName))
    \/ Contains(Lower(providerName), Lower(key))

RECURSIVE FirstPartial(_, _, _)
\* the first configured key, in dict order, that partially matches
FirstPartial(policies, providerName, i) ==
    IF i > Len(policies) THEN 0
    ELSE IF PartialMatch(policies[i][1], providerName) THEN i
    ELSE FirstPartial(policies, providerName, i + 1)

\* PolicyManager.get_policy
GetPolicy(pm, providerName) ==
    IF DictHas(pm.policies, providerName) THEN DictGet(pm.policies, providerName)
    ELSE LET i == FirstPartial(pm.policies, providerName, 1)
         IN  IF i # 0 THEN pm.policies[i][2] ELSE pm.default_policy

\* An exception: its class, the class of the error it wraps, the variable it names.
NoError == [type |-> "none", cause |-> "none", var |-> << >>]

ProviderError(cause) == [type |-> "ProviderError", cause |-> cause, var |-> << >>]

\* handle_error raising for every policy but FALLBACK
HandleError_RaisesOnWarn(pm, providerName, error) ==
    IF GetPolicy(pm, providerName) # FALLBACK
    THEN ProviderError(error)
    ELSE NoError

\* PolicyManager.handle_error: what it raises (NoError when it returns)
HandleError(pm, providerName, error) ==
    IF GetPolicy(pm, providerName) = FAIL
    THEN ProviderError(error)
    ELSE NoError

\* PolicyManager.should_continue
ShouldContinue(pm, providerName) == GetPolicy(pm, providerName) # FAIL

sAzure == <<"a", "z", "u", "r", "e">>
sAws == <<"a", "w", "s">>
sFilesystem == <<"f", "i", "l", "e", "s", "y", "s", "t", "e", "m">>
sDocker == <<"d", "o", "c", "k", "e", "r">>
sKubernetes == <<"k", "u", "b", "e", "r", "n", "e", "t", "e", "s">>

\* create_default_policies()
CreateDefaultPolicies ==
    << <<sAzure, sFail>>, <<sAws, sFallback>>, <<sFilesystem, sWarn>>,
       <<sDocker, sWarn>>, <<sKubernetes, sWarn>> >>

(***************************************************************************)
(* core/loader.py : _expand_variables                                      *)
(***************************************************************************)
\* The least j > i + 2 with s[j] = "}", or 0.
ClosingBrace(s, i) ==
    LET js == { j \in (i + 3)..Len(s) : s[j] = "}" }
    IN  IF js = {} THEN 0 ELSE CHOOSE j \in js : \A k \in js : j <= k

\* re pattern \$\{([^}]+)\} anchored at i: the index of the closing brace, or 0.
MatchEnd(s, i) ==
    IF /\ i + 3 <= Len(s)
       /\ s[i] = "$"
       /\ s[i + 1] = "{"
       /\ s[i + 2] # "}"
    THEN ClosingBrace(s, i)
    ELSE 0

ExpandOk(out, visited) == [err |-> None, out |-> out, visited |-> visited]

\* raise EnvLoaderError("Circular reference detected for variable: " + name)
CircularReference(name, visited) == [err |-> Some(name), out |-> << >>, visited |-> visited]

RECURSIVE ExpandFrom(_, _, _, _)
RECURSIVE ReplaceVar(_, _, _, _)

\* a name met again while it is in progress is left as written, not reported
ReplaceVar_CycleLeftAsWritten(varName, matched, envDict, visited) ==
    IF varName \in visited \/ ~DictHas(envDict, varName) THEN ExpandOk(matched, visited)
    ELSE LET r == ExpandFrom(DictGet(envDict, varName), 1, envDict,
                             visited \cup {varName})
         IN  IF r.err # None THEN r
             ELSE ExpandOk(r.out, r.visited \ {varName})

\* a name that the context does not hold is replaced by the empty text
ReplaceVar_MissingBecomesEmpty(varName, matched, envDict, visited) ==
    IF varName \in visited THEN CircularReference(varName, visited)
    ELSE IF ~DictHas(envDict, varName) THEN ExpandOk(<< >>, visited)
    ELSE LET r == ExpandFrom(DictGet(envDict, varName), 1, envDict,
                             visited \cup {varName})
         IN  IF r.err # None THEN r
             ELSE ExpandOk(r.out, r.visited \ {varName})

\* the value of the name is put in as it stands, its own references unexpanded
ReplaceVar_ValueNotExpanded(varName, matched, envDict, visited) ==
    IF varName \in visited THEN CircularReference(varName, visited)
    ELSE IF ~DictHas(envDict, varName) THEN ExpandOk(matched, visited)
    ELSE ExpandOk(DictGet(envDict, varName), visited)

\* a name stays in the in-progress set after its branch has completed
ReplaceVar_NameNotReleased(varName, matched, envDict, visited) ==
    IF varName \in visited THEN CircularReference(varName, visited)
    ELSE IF ~DictHas(envDict, varName) THEN ExpandOk(matched, visited)
    ELSE ExpandFrom(DictGet(envDict, varName), 1, envDict, visited \cup {varName})

\* replace_var(match): the replacement text and the visited set it leaves behind
ReplaceVar(varName, matched, envDict, visited) ==
    IF varName \in visited THEN CircularReference(varName, visited)
    ELSE IF ~DictHas(envDict, varName) THEN ExpandOk(matched, visited)
    ELSE LET r == ExpandFrom(DictGet(envDict, varName), 1, envDict,
                             visited \cup {varName})
         IN  IF r.err # None THEN r
             ELSE ExpandOk(r.out, r.visited \ {varName})

\* a "$" that starts no reference is dropped from the output
ExpandFrom_DropsBareDollar(value, i, envDict, visited) ==
    IF i > Len(value) THEN ExpandOk(<< >>, visited)
    ELSE LET j == MatchEnd(value, i)
         IN  IF j = 0
             THEN LET rest == ExpandFrom(value, i + 1, envDict, visited)
                  IN  IF rest.err # None THEN rest
                      ELSE IF value[i] = "$" THEN rest
                      ELSE ExpandOk(<<value[i]>> \o rest.out, rest.visited)
             ELSE LET r == ReplaceVar(SubSeq(value, i + 2, j - 1),
                                      SubSeq(value, i, j), envDict, visited)
                  IN  IF r.err # None THEN r
                      ELSE LET rest == ExpandFrom(value, j + 1, envDict, r.visited)
                           IN  IF rest.err # None THEN rest
                               ELSE ExpandOk(r.out \o rest.out, rest.visited)

\* re.sub(pattern, replace_var, value) scanning from index i; the text a
\* replacement returns is not scanned again
ExpandFrom(value, i, envDict, visited) ==
    IF i > Len(value) THEN ExpandOk(<< >>, visited)
    ELSE LET j == MatchEnd(value, i)
         IN  IF j = 0
             THEN LET rest == ExpandFrom(value, i + 1, envDict, visited)
                  IN  IF rest.err # None THEN rest
                      ELSE ExpandOk(<<value[i]>> \o rest.out, rest.visited)
             ELSE LET r == ReplaceVar(SubSeq(value, i + 2, j - 1),
                                      SubSeq(value, i, j), envDict, visited)
                  IN  IF r.err # None THEN r
                      ELSE LET rest == ExpandFrom(value, j + 1, envDict, r.visited)
                           IN  IF rest.err # None THEN rest
                               ELSE ExpandOk(r.out \o rest.out, rest.visited)

\* _expand_variables(value, env_dict) called with visited=None
ExpandVariables(value, envDict) == ExpandFrom(value, 1, envDict, {})

RECURSIVE ExpandEach(_, _, _)
\* for k, v in out.items(): expanded[k] = _expand_variables(v, out)
ExpandEach(out, i, expanded) ==
    IF i > Len(out) THEN [err |-> None, vars |-> expanded]
    ELSE LET r == ExpandVariables(out[i][2], out)
         IN  IF r.err # None THEN [err |-> r.err, vars |-> EmptyDict]
             ELSE ExpandEach(out, i + 1, DictPut(expanded, out[i][1], r.out))

\* _parse_dotenv on an existing file whose parsed lines are `out`
ParseDotenv(out, expandVars) ==
    IF expandVars THEN ExpandEach(out, 1, EmptyDict)
    ELSE [err |-> None, vars |-> out]

RECURSIVE ReExpandFrom(_, _, _)
\* for k, v in list(merged.items()): if '${' in v: merged[k] = expand(v, merged)
\* (the snapshot gives the keys and the values as they were before the loop)
ReExpandFrom(snapshot, i, m) ==
    IF i > Len(snapshot) THEN [err |-> None, vars |-> m]
    ELSE IF ~Contains(<<"$", "{">>, snapshot[i][2])
         THEN ReExpandFrom(snapshot, i + 1, m)
         ELSE LET r == ExpandVariables(snapshot[i][2], m)
              IN  IF r.err # None THEN [err |-> r.err, vars |-> EmptyDict]
                  ELSE ReExpandFrom(snapshot, i + 1,
                                    DictPut(m, snapshot[i][1], r.out))

ReExpand(m) == ReExpandFrom(m, 1, m)

(***************************************************************************)
(* utils/masking.py : is_secret_key with DEFAULT_SECRET_PATTERNS           *)
(***************************************************************************)
SecretWords ==
    { <<"s", "e", "c", "r", "e", "t">>, <<"k", "e", "y">>, <<"t", "o", "k", "e", "n">>,
      <<"p", "a", "s", "s", "w", "o", "r", "d">>, <<"p", "w", "d">>,
      <<"c", "r", "e", "d", "e", "n", "t", "i", "a", "l">>, <<"a", "u", "t", "h">> }

\* any(p.match(key)) for the patterns .*word.* compiled with IGNORECASE
IsSecretKey(key) == \E w \in SecretWords : Contains(w, Lower(key))

(***************************************************************************)
(* core/audit.py : ConfigAudit                                             *)
(***************************************************************************)
NoAudit == [k \in {} |-> [source |-> UNKNOWN, provider |-> None, masked |-> FALSE]]

\* ConfigAudit.add: entries[key] = AuditEntry(...)
AuditAdd(entries, key, source, provider) ==
    [k \in DOMAIN entries \cup {key} |->
        IF k = key
        THEN [source |-> source, provider |-> provider, masked |-> IsSecretKey(key)]
        ELSE entries[k]]

RECURSIVE AuditAddKeys(_, _, _, _, _)
\* if audit_obj: for key in d.keys(): audit_obj.add(key, source, provider)
AuditAddKeys(enabled, entries, d, source, provider) ==
    IF ~enabled \/ d = EmptyDict THEN entries
    ELSE AuditAddKeys(enabled, AuditAdd(entries, d[1][1], source, provider),
                      Tail(d), source, provider)

(***************************************************************************)
(* core/cache.py : Cache                                                   *)
(***************************************************************************)
NoEntries == [k \in {} |-> 0]

\* Cache.__init__
NewCache(ttl, enabled) ==
    [ttl |-> ttl, enabled |-> enabled, cache |-> NoEntries, timestamps |-> NoEntries]

Without(f, k) == [x \in DOMAIN f \ {k} |-> f[x]]

With(f, k, v) == [x \in DOMAIN f \cup {k} |-> IF x = k THEN v ELSE f[x]]

\* an entry exactly ttl seconds old still counts as valid
CacheIsValid_Inclusive(c, key, now) ==
    /\ key \in DOMAIN c.timestamps
    /\ now - c.timestamps[key] <= c.ttl

\* Cache._is_valid at wall-clock time now
CacheIsValid(c, key, now) ==
    /\ key \in DOMAIN c.timestamps
    /\ now - c.timestamps[key] < c.ttl

\* Cache.get: the value returned (None for a miss) and the cache it leaves
CacheGet(c, key, now) ==
    IF ~c.enabled THEN [value |-> None, cache |-> c]
    ELSE IF key \notin DOMAIN c.cache THEN [value |-> None, cache |-> c]
    ELSE IF ~CacheIsValid(c, key, now)
         THEN [value |-> None,
               cache |-> [c EXCEPT !.cache = Without(c.cache, key),
                                   !.timestamps = Without(c.timestamps, key)]]
         ELSE [value |-> Some(c.cache[key]), cache |-> c]

\* Cache.set
CacheSet(c, key, value, now) ==
    IF ~c.enabled THEN c
    ELSE [c EXCEPT !.cache = With(c.cache, key, value),
                   !.timestamps = With(c.timestamps, key, now)]

\* Cache.invalidate: one key, or every entry when key is None
CacheInvalidate(c, key) ==
    IF key = None THEN [c EXCEPT !.cache = NoEntries, !.timestamps = NoEntries]
    ELSE [c EXCEPT !.cache = Without(c.cache, key[1]),
                   !.timestamps = Without(c.timestamps, key[1])]

(***************************************************************************)
(* core/performance.py : CircuitBreaker                                    *)
(***************************************************************************)
DefaultFailureThreshold == 5

DefaultTimeoutSeconds == 60

\* CircuitBreaker.__init__
NewBreaker(failureThreshold, timeoutSeconds) ==
    [failure_threshold |-> failureThreshold, timeout_seconds |-> timeoutSeconds,
     failure_count |-> 0, last_failure_time |-> None, state |-> "closed"]

\* CircuitBreaker.record_success
RecordSuccess(b) == [b EXCEPT !.failure_count = 0, !.state = "closed"]

\* CircuitBreaker.record_failure at wall-clock time now
RecordFailure(b, now) ==
    [b EXCEPT !.failure_count = b.failure_count + 1,
              !.last_failure_time = Some(now),
              !.state = IF b.failure_count + 1 >= b.failure_threshold
                        THEN "open" ELSE b.state]

\* the circuit stays open until more than timeout_seconds have passed
IsOpen_TimeoutExclusive(b, now) ==
    IF b.state = "open"
    THEN IF /\ b.last_failure_time # None
            /\ b.last_failure_time[1] # 0
            /\ now - b.last_failure_time[1] > b.timeout_seconds
         THEN [open |-> FALSE, breaker |-> [b EXCEPT !.state = "half_open"]]
         ELSE [open |-> TRUE, breaker |-> b]
    ELSE [open |-> FALSE, breaker |-> b]

\* CircuitBreaker.is_open at wall-clock time now: what it returns and the
\* breaker it leaves (`if self.last_failure_time:` is false for None and for 0)
IsOpen(b, now) ==
    IF b.state = "open"
    THEN IF /\ b.last_failure_time # None
            /\ b.last_failure_time[1] # 0
            /\ now - b.last_failure_time[1] >= b.timeout_seconds
         THEN [open |-> FALSE, breaker |-> [b EXCEPT !.state = "half_open"]]
         ELSE [open |-> TRUE, breaker |-> b]
    ELSE [open |-> FALSE, breaker |-> b]

\* CircuitBreaker.should_attempt
ShouldAttempt(b, now) ==
    LET r == IsOpen(b, now)
    IN  [result |-> ~r.open, breaker |-> r.breaker]

(***************************************************************************)
(* core/loader.py : _load_from_providers                                   *)
(***************************************************************************)
sProviderPrefix == <<"p", "r", "o", "v", "i", "d", "e", "r", ":">>

\* f"provider:{provider_name}:{key}"
CacheKey(providerName, key) == sProviderPrefix \o providerName \o <<":">> \o key

\* the origin chosen from the provider's class name (case-sensitive tests)
ProviderOrigin(providerName) ==
    IF Contains(<<"A", "z", "u", "r", "e">>, providerName) THEN CLOUD_AZURE
    ELSE IF Contains(<<"A", "W", "S">>, providerName) THEN CLOUD_AWS
    ELSE IF Contains(<<"D", "o", "c", "k", "e", "r">>, providerName) THEN DOCKER
    ELSE IF Contains(<<"K", "u", "b", "e", "r", "n", "e", "t", "e", "s">>, providerName)
         THEN K8S
    ELSE UNKNOWN

RECURSIVE ApplyCaching(_, _, _, _, _)
\* for key, value in provider_values.items(): cached value wins, else cache.set
ApplyCaching(values, i, providerName, c, now) ==
    IF i > Len(values) THEN [values |-> values, cache |-> c]
    ELSE LET ck == CacheKey(providerName, values[i][1])
             g == CacheGet(c, ck, now)
         IN  IF g.value # None
             THEN ApplyCaching([values EXCEPT ![i] = <<values[i][1], g.value[1]>>],
                               i + 1, providerName, g.cache, now)
             ELSE ApplyCaching(values, i + 1, providerName,
                               CacheSet(g.cache, ck, values[i][2], now), now)

\* the try-body of the provider loop when get_all() returned p.values
ProviderReturned(st, p, traceOn, auditOn, now) ==
    LET cv == IF st.cache.enabled
              THEN ApplyCaching(p.values, 1, p.name, st.cache, now)
              ELSE [values |-> p.values, cache |-> st.cache]
        origin == ProviderOrigin(p.name)
    IN  [result |-> DictUpdate(st.result, cv.values),
         cache |-> cv.cache,
         origins |-> TracerRecordKeys(traceOn, st.origins, cv.values, origin, 1),
         audit |-> AuditAddKeys(traceOn /\ auditOn, st.audit, cv.values, origin,
                                Some(p.name)),
         raised |-> NoError]

\* the error is swallowed whatever the policy
ProviderRaised_Swallowed(st, p, pm) == st

\* the error is handled, but what earlier providers gave is thrown away
ProviderRaised_DropsResult(st, p, pm) ==
    [st EXCEPT !.raised = HandleError(pm, p.name, p.error[1]), !.result = EmptyDict]

\* the except-branch of the provider loop when get_all() raised p.error[1]
ProviderRaised(st, p, pm) ==
    [st EXCEPT !.raised = HandleError(pm, p.name, p.error[1])]

\* one iteration of the provider loop
ProviderStep(st, p, pm, traceOn, auditOn, now) ==
    IF p.error # None THEN ProviderRaised(st, p, pm)
    ELSE ProviderReturned(st, p, traceOn, auditOn, now)

RECURSIVE LoadFromProviders(_, _, _, _, _, _, _)
\* _load_from_providers from provider i on; an exception ends the loop
LoadFromProviders(providers, i, st, pm, traceOn, auditOn, now) ==
    IF i > Len(providers) \/ st.raised # NoError THEN st
    ELSE LoadFromProviders(providers, i + 1,
                           ProviderStep(st, providers[i], pm, traceOn, auditOn, now),
                           pm, traceOn, auditOn, now)

(***************************************************************************)
(* core/loader.py : load_env, one action per stage of the pipeline         *)
(***************************************************************************)
DefaultCacheTtl == 3600

\* priority: str = "file" (an argument that load_env never reads)
DefaultPriority == "file"

NoSources == [n \in {} |-> EmptyDict]

CircularReferenceError(name) == [type |-> "EnvLoaderError", cause |-> "circular", var |-> name]

\* the policy manager of the call: the caller's policies, or else the defaults
PoliciesForCall(failurePolicy) ==
    IF failurePolicy # None /\ failurePolicy[1] # EmptyDict
    THEN NewPolicyManager(failurePolicy, None)
    ELSE NewPolicyManager(Some(CreateDefaultPolicies), None)

\* "Initialize components" and "Initialize policy manager"
\* the Cache outlives the call: only its switch and ttl follow the arguments
Initialize_KeepsCache ==
    /\ pc = "start"
    /\ pc' = "defaults"
    /\ policyManager' = PoliciesForCall(args.failure_policy)
    /\ cacheObj' = [cacheObj EXCEPT !.ttl = args.cache_ttl, !.enabled = args.cache]
    /\ origins' = NoOrigins
    /\ auditEntries' = NoAudit
    /\ sources' = NoSources
    /\ fetched' = {}
    /\ UNCHANGED <<args, world, provIdx, providerVars, merged, raised>>
    /\ UNCHANGED outsideLoad

Initialize ==
    /\ pc = "start"
    /\ pc' = "defaults"
    /\ policyManager' = PoliciesForCall(args.failure_policy)
    /\ cacheObj' = NewCache(args.cache_ttl, args.cache)
    /\ origins' = NoOrigins
    /\ auditEntries' = NoAudit
    /\ sources' = NoSources
    /\ fetched' = {}
    /\ UNCHANGED <<args, world, provIdx, providerVars, merged, raised>>
    /\ UNCHANGED outsideLoad

\* sources[name] = vars, then the tracer and audit loops over its keys
Contribute(name, d, origin, provider) ==
    /\ sources' = With(sources, name, d)
    /\ origins' = TracerRecordKeys(args.trace, origins, d, origin, 1)
    /\ auditEntries' = AuditAddKeys(args.audit, auditEntries, d, origin, provider)

\* 1. Schema defaults
LoadDefaults ==
    /\ pc = "defaults"
    /\ pc' = "base"
    /\ IF args.defaults # EmptyDict
       THEN Contribute("schema_defaults", args.defaults, SCHEMA_DEFAULT, None)
       ELSE UNCHANGED <<sources, origins, auditEntries>>
    /\ UNCHANGED <<fetched, args, world, policyManager, cacheObj, provIdx, providerVars, merged,
                   raised>>
    /\ UNCHANGED outsideLoad

\* a file stage: parse the file if it exists; a circular reference leaves the call
LoadFile(file, name, origin, nextPc) ==
    IF file = None
    THEN /\ pc' = nextPc
         /\ UNCHANGED <<sources, origins, auditEntries, raised>>
    ELSE LET r == ParseDotenv(file[1], args.expand_vars)
         IN  IF r.err # None
             THEN /\ pc' = "raised"
                  /\ raised' = CircularReferenceError(r.err[1])
                  /\ UNCHANGED <<sources, origins, auditEntries>>
             ELSE /\ pc' = nextPc
                  /\ Contribute(name, r.vars, origin, None)
                  /\ UNCHANGED raised

\* 2. Base .env file
LoadBaseFile ==
    /\ pc = "base"
    /\ LoadFile(world.base, "base_file", FILE_BASE, "envfile")
    /\ UNCHANGED <<fetched, args, world, policyManager, cacheObj, provIdx, providerVars, merged>>
    /\ UNCHANGED outsideLoad

\* 3. Environment-specific .env.{env}
LoadEnvFile ==
    /\ pc = "envfile"
    /\ LoadFile(IF args.env THEN world.envfile ELSE None,
                "env_specific", FILE_ENV_SPECIFIC, "mounted")
    /\ UNCHANGED <<fetched, args, world, policyManager, cacheObj, provIdx, providerVars, merged>>
    /\ UNCHANGED outsideLoad

\* a call of get_all(): on the provider at position `at` of the providers
\* argument ("listed"), or on the mounted-secret provider load_env builds
Fetch(kind, at) == [kind |-> kind, at |-> at]

\* the mounted-secret providers whose get_all() load_env calls: docker when it
\* is available; kubernetes when it is available and docker's call returned
MountsFetched ==
    (IF world.docker.available THEN {"docker"} ELSE {})
      \cup (IF world.k8s.available /\ ~(world.docker.available /\ world.docker.error # None)
           THEN {"kubernetes"} ELSE {})

\* what a mounted-secret provider gives: {} unless is_available()
MountedVars(m) == IF m.available THEN m.values ELSE EmptyDict

\* 4. Docker/K8s mounted secrets; only ImportError is caught there: what
\* DockerSecretsProvider.get_all() raises (a ProviderError around the error of
\* listing the directory) or KubernetesSecretsProvider.get_all() raises (the
\* error of listing the directory itself) leaves load_env
LoadMounted ==
    /\ pc = "mounted"
    /\ LET docker == world.docker
           k8s == world.k8s
           dockerVars == MountedVars(docker)
           k8sVars == MountedVars(k8s)
       IN  IF docker.available /\ docker.error # None
           THEN /\ pc' = "raised"
                /\ raised' = ProviderError(docker.error[1])
                /\ UNCHANGED <<sources, origins, auditEntries>>
           ELSE IF k8s.available /\ k8s.error # None
           THEN /\ pc' = "raised"
                /\ raised' = [type |-> k8s.error[1], cause |-> "none", var |-> << >>]
                /\ UNCHANGED <<sources, origins, auditEntries>>
           ELSE /\ pc' = "system"
                /\ UNCHANGED raised
                /\ IF dockerVars # EmptyDict \/ k8sVars # EmptyDict
                   THEN /\ sources' = With(sources, "docker_k8s",
                                           DictUpdate(dockerVars, k8sVars))
                        /\ origins' =
                             TracerRecordKeys(args.trace,
                                TracerRecordKeys(args.trace, origins, dockerVars, DOCKER, 1),
                                k8sVars, K8S, 1)
                        /\ auditEntries' =
                             AuditAddKeys(args.audit,
                                AuditAddKeys(args.audit, auditEntries, dockerVars, DOCKER,
                                             Some(<<"D", "o", "c", "k", "e", "r", "S", "e",
                                                    "c", "r", "e", "t", "s", "P", "r", "o",
                                                    "v", "i", "d", "e", "r">>)),
                                k8sVars, K8S,
                                Some(<<"K", "u", "b", "e", "r", "n", "e", "t", "e", "s", "S",
                                       "e", "c", "r", "e", "t", "s", "P", "r", "o", "v", "i",
                                       "d", "e", "r">>))
                   ELSE UNCHANGED <<sources, origins, auditEntries>>
    /\ fetched' = fetched \cup { Fetch(m, 0) : m \in MountsFetched }
    /\ UNCHANGED <<args, world, policyManager, cacheObj, provIdx, providerVars, merged>>
    /\ UNCHANGED outsideLoad

\* [k for s in sources.values() for k in s.keys()]
AllSourceKeys(srcs) == UNION { DictKeys(srcs[n]) : n \in DOMAIN srcs }

RECURSIVE RecordSystemOrigins(_, _, _, _)
\* tracer.record(key, SYSTEM) for the keys not in any source
RecordSystemOrigins(enabled, orig, systemVars, srcs) ==
    IF systemVars = EmptyDict THEN orig
    ELSE RecordSystemOrigins(enabled,
            IF systemVars[1][1] \notin AllSourceKeys(srcs)
            THEN TracerRecord(enabled, orig, systemVars[1][1], SYSTEM)
            ELSE orig,
            Tail(systemVars), srcs)

RECURSIVE AuditSystemKeys(_, _, _)
\* audit_obj.add(key, "system") for the keys with no audit entry yet
AuditSystemKeys(enabled, entries, systemVars) ==
    IF ~enabled \/ systemVars = EmptyDict THEN entries
    ELSE AuditSystemKeys(enabled,
            IF systemVars[1][1] \notin DOMAIN entries
            THEN AuditAdd(entries, systemVars[1][1], SYSTEM, None)
            ELSE entries,
            Tail(systemVars))

\* 5. System environment variables
LoadSystem ==
    /\ pc = "system"
    /\ pc' = "providers"
    /\ sources' = With(sources, "system", world.environ)
    /\ origins' = RecordSystemOrigins(args.trace, origins, world.environ, sources')
    /\ auditEntries' = AuditSystemKeys(args.audit, auditEntries, world.environ)
    /\ provIdx' = 1
    /\ providerVars' = EmptyDict
    /\ UNCHANGED <<fetched, args, world, policyManager, cacheObj, merged, raised>>
    /\ UNCHANGED outsideLoad

\* the state the provider loop works on
LoopState ==
    [result |-> providerVars, cache |-> cacheObj, origins |-> origins,
     audit |-> auditEntries, raised |-> NoError]

\* 6. Cloud providers: one iteration of the loop of _load_from_providers
CallProvider ==
    /\ pc = "providers"
    /\ provIdx <= Len(args.providers)
    /\ LET st == ProviderStep(LoopState, args.providers[provIdx], policyManager,
                              args.trace, args.audit, world.now)
       IN  /\ providerVars' = st.result
           /\ cacheObj' = st.cache
           /\ origins' = st.origins
           /\ auditEntries' = st.audit
           /\ raised' = st.raised
           /\ pc' = IF st.raised # NoError THEN "raised" ELSE "providers"
    /\ provIdx' = provIdx + 1
    /\ fetched' = fetched \cup {Fetch("listed", provIdx)}
    /\ UNCHANGED <<args, world, policyManager, sources, merged>>
    /\ UNCHANGED outsideLoad

\* the merge does not wait for the provider loop to end
MergeSources_BeforeProvidersEnd ==
    /\ pc = "providers"
    /\ sources' = IF providerVars # EmptyDict
                  THEN With(sources, "cloud_providers", providerVars)
                  ELSE sources
    /\ LET m == Merge(sources', None, args.trace, origins)
       IN  IF m.raised # "none"
           THEN /\ pc' = "raised"
                /\ raised' = [type |-> m.raised, cause |-> "none", var |-> << >>]
                /\ UNCHANGED <<merged, origins>>
           ELSE /\ pc' = "expand"
                /\ merged' = m.merged
                /\ origins' = m.origins
                /\ UNCHANGED raised
    /\ UNCHANGED <<fetched, args, world, policyManager, auditEntries, cacheObj, provIdx,
                   providerVars>>
    /\ UNCHANGED outsideLoad

\* if provider_vars: sources["cloud_providers"] = ...; merged = merger.merge(sources)
MergeSources ==
    /\ pc = "providers"
    /\ provIdx > Len(args.providers)
    /\ sources' = IF providerVars # EmptyDict
                  THEN With(sources, "cloud_providers", providerVars)
                  ELSE sources
    /\ LET m == Merge(sources', None, args.trace, origins)
       IN  IF m.raised # "none"
           THEN /\ pc' = "raised"
                /\ raised' = [type |-> m.raised, cause |-> "none", var |-> << >>]
                /\ UNCHANGED <<merged, origins>>
           ELSE /\ pc' = "expand"
                /\ merged' = m.merged
                /\ origins' = m.origins
                /\ UNCHANGED raised
    /\ UNCHANGED <<fetched, args, world, policyManager, auditEntries, cacheObj, provIdx,
                   providerVars>>
    /\ UNCHANGED outsideLoad

\* Re-expand variables after merging
ReExpandMerged ==
    /\ pc = "expand"
    /\ LET r == IF args.expand_vars THEN ReExpand(merged)
                ELSE [err |-> None, vars |-> merged]
       IN  IF r.err # None
           THEN /\ pc' = "raised"
                /\ raised' = CircularReferenceError(r.err[1])
                /\ UNCHANGED merged
           ELSE /\ pc' = "fill"
                /\ merged' = r.vars
                /\ UNCHANGED raised
    /\ UNCHANGED <<fetched, args, world, policyManager, sources, origins, auditEntries, cacheObj,
                   provIdx, providerVars>>
    /\ UNCHANGED outsideLoad

RECURSIVE SetDefaults(_, _)
\* for k, v in defaults.items(): merged.setdefault(k, str(v))
SetDefaults(m, defaults) ==
    IF defaults = EmptyDict THEN m
    ELSE SetDefaults(DictSetDefault(m, defaults[1][1], defaults[1][2]), Tail(defaults))

\* Apply defaults for missing keys, then return the configuration
ApplyDefaults ==
    /\ pc = "fill"
    /\ pc' = "done"
    /\ merged' = SetDefaults(merged, args.defaults)
    /\ UNCHANGED <<fetched, args, world, policyManager, sources, origins, auditEntries, cacheObj,
                   provIdx, providerVars, raised>>
    /\ UNCHANGED outsideLoad

Next ==
    \/ Initialize
    \/ LoadDefaults
    \/ LoadBaseFile
    \/ LoadEnvFile
    \/ LoadMounted
    \/ LoadSystem
    \/ CallProvider
    \/ MergeSources
    \/ ReExpandMerged
    \/ ApplyDefaults

(***************************************************************************)
(* The calls of load_env that are explored                                 *)
(***************************************************************************)
nAzure == <<"A", "z", "u", "r", "e", "K", "V">>
nAws == <<"A", "W", "S", "S", "S", "M">>
nVault == <<"M", "y", "V", "a", "u", "l", "t">>

\* a provider object: its class name and what get_all() does
ProviderUp(name, values) ==
    [name |-> name, error |-> None, values |-> values, available |-> TRUE]

ProviderDown(name, error) ==
    [name |-> name, error |-> Some(error), values |-> EmptyDict, available |-> TRUE]

\* a provider whose is_available() returns False, and what its get_all() would do
ProviderUnavailable(name, error, values) ==
    [name |-> name, error |-> error, values |-> values, available |-> FALSE]

ProviderPool ==
    { ProviderUp(nAzure, << <<kA, <<"z">>>> >>),
      ProviderUp(nAws, << <<kA, <<"w">>>>, <<kB, <<"w">>>> >>),
      ProviderDown(nAzure, "ConnectionError"),
      ProviderDown(nAws, "TimeoutError") }

MaxProviders == 2

RECURSIVE SeqsUpTo(_, _)
SeqsUpTo(S, n) ==
    IF n = 0 THEN { << >> }
    ELSE LET shorter == SeqsUpTo(S, n - 1)
         IN  shorter \cup { Append(q, x) : q \in shorter, x \in S }

ProviderLists == SeqsUpTo(ProviderPool, MaxProviders)

PolicyPool ==
    { None,
      Some(<< <<sAws, sWarn>> >>),
      Some(<< <<sAzure, <<"W", "a", "r", "n">>>>, <<sAws, sFail>> >>) }

DefaultsPool == { EmptyDict, << <<kA, <<"d">>>> >> }

BasePool == { None, Some(<< <<kA, <<"b">>>>, <<kB, Ref(kA)>> >>) }

EnvFilePool == { Some(<< <<kA, <<"e">>>> >>) }

\* a mounted-secret provider: is_available(), and what get_all() does
Mount(available, error, values) ==
    [available |-> available, error |-> error, values |-> values]

NotMounted == Mount(FALSE, None, EmptyDict)

DockerPool == { NotMounted, Mount(TRUE, None, << <<kA, <<"k">>>> >>) }

K8sPool == { NotMounted }

EnvironPool == { EmptyDict, << <<kA, <<"s">>>> >> }

Idle ==
    /\ pc = "start"
    /\ policyManager = NewPolicyManager(None, None)
    /\ sources = NoSources
    /\ origins = NoOrigins
    /\ auditEntries = NoAudit
    /\ cacheObj = NewCache(DefaultCacheTtl, FALSE)
    /\ provIdx = 1
    /\ providerVars = EmptyDict
    /\ merged = EmptyDict
    /\ raised = NoError
    /\ fetched = {}
    /\ calls = 1
    /\ refCall = None

MergeIdle ==
    /\ mSources = NoSources
    /\ mPriorityOrder = None
    /\ mTracer = [enabled |-> FALSE, origins |-> NoOrigins]
    /\ mResult = [raised |-> "idle", merged |-> EmptyDict]

PolicyIdle ==
    /\ pmPolicies = None
    /\ pmDefault = None
    /\ pmProvider = << >>
    /\ pmError = "none"
    /\ pmResult = [policy |-> "idle", handled |-> FALSE, raised |-> NoError]
    /\ pmOther = [policies |-> None, policy |-> "idle"]

ExpandIdle ==
    /\ xValue = << >>
    /\ xCtx = EmptyDict
    /\ xResult = [raised |-> "idle", err |-> None, out |-> << >>]
    /\ xParsed = [raised |-> "idle", err |-> None, vars |-> EmptyDict]
    /\ xAgain = [value |-> None, merged |-> None]

CacheIdle ==
    /\ theCache = NewCache(DefaultCacheTtl, FALSE)
    /\ clock = 0
    /\ lastCall = [op |-> "idle", key |-> None, result |-> None, at |-> 0]
    /\ liveSets = NoEntries
    /\ threads = << >>

BreakerIdle ==
    /\ breaker = NewBreaker(DefaultFailureThreshold, DefaultTimeoutSeconds)
    /\ failures = [count |-> 0, at |-> None]
    /\ attempt = [made |-> FALSE, result |-> TRUE, at |-> 0]

LoadIdle ==
    /\ args = [env |-> FALSE, trace |-> FALSE, audit |-> FALSE, cache |-> FALSE,
               cache_ttl |-> DefaultCacheTtl, expand_vars |-> FALSE,
               failure_policy |-> None, defaults |-> EmptyDict, providers |-> << >>,
               priority |-> DefaultPriority]
    /\ world = [base |-> None, envfile |-> None, docker |-> NotMounted,
                k8s |-> NotMounted, environ |-> EmptyDict, now |-> 0]
    /\ policyManager = NewPolicyManager(None, None)
    /\ sources = NoSources
    /\ origins = NoOrigins
    /\ auditEntries = NoAudit
    /\ cacheObj = NewCache(DefaultCacheTtl, FALSE)
    /\ provIdx = 1
    /\ providerVars = EmptyDict
    /\ merged = EmptyDict
    /\ raised = NoError
    /\ fetched = {}
    /\ pc = "idle"
    /\ calls = 0
    /\ refCall = None

Init ==
    /\ MergeIdle
    /\ PolicyIdle
    /\ ExpandIdle
    /\ CacheIdle
    /\ BreakerIdle
    /\ args \in [env : BOOLEAN, trace : BOOLEAN, audit : BOOLEAN, cache : BOOLEAN,
                 cache_ttl : {DefaultCacheTtl}, expand_vars : BOOLEAN,
                 failure_policy : PolicyPool, defaults : DefaultsPool,
                 providers : ProviderLists, priority : {DefaultPriority}]
    /\ world \in [base : BasePool, envfile : EnvFilePool, docker : DockerPool,
                  k8s : K8sPool, environ : EnvironPool, now : {0}]
    /\ Idle

Spec == Init /\ [][Next]_vars

(***************************************************************************)
(* ConfigurationMerger.merge called on its own                             *)
(***************************************************************************)
\* a source name that SOURCE_PRIORITY does not register
UnregisteredName == "cli_args"

BundleNames == DOMAIN SOURCE_PRIORITY \cup {UnregisteredName}

\* the one-character value that tells which source a value came from
SourceTag ==
    [cloud_providers |-> "c", system |-> "s", docker_k8s |-> "k", env_specific |-> "e",
     base_file |-> "b", schema_defaults |-> "d", cli_args |-> "x"]

\* what a source of the bundle may hold: choice 1 or choice 2
SourceDict(n, choice) ==
    IF choice = 1 THEN << <<kA, <<SourceTag[n]>>>> >>
    ELSE << <<kB, <<SourceTag[n]>>>>, <<kA, <<SourceTag[n]>>>> >>

\* the bundle holding the sources whose choice is not 0
BundleOf(choice) ==
    [n \in { x \in BundleNames : choice[x] # 0 } |-> SourceDict(n, choice[n])]

PriorityOrderPool ==
    { None,
      Some(<<"schema_defaults", "base_file", "env_specific", "docker_k8s", "system",
             "cloud_providers">>),
      Some(<<"base_file", UnregisteredName, "system">>),
      Some(<< >>) }

InitMerge ==
    /\ \E choice \in [BundleNames -> 0..2] : mSources = BundleOf(choice)
    /\ mPriorityOrder \in PriorityOrderPool
    /\ mTracer \in [enabled : BOOLEAN, origins : {NoOrigins}]
    /\ mResult = [raised |-> "pending", merged |-> EmptyDict]
    /\ PolicyIdle
    /\ ExpandIdle
    /\ CacheIdle
    /\ BreakerIdle
    /\ LoadIdle

\* merged = merger.merge(sources, priority_order)
MergeCall ==
    /\ mResult.raised = "pending"
    /\ LET m == Merge(mSources, mPriorityOrder, mTracer.enabled, mTracer.origins)
       IN  /\ mResult' = [raised |-> m.raised, merged |-> m.merged]
           /\ mTracer' = [mTracer EXCEPT !.origins = m.origins]
    /\ UNCHANGED <<mSources, mPriorityOrder, outsideMerge>>

NextMerge == MergeCall

SpecMerge == InitMerge /\ [][NextMerge]_vars

\* the sources of the bundle that hold key k
Holders(k) == { n \in DOMAIN mSources : DictHas(mSources[n], k) }

\* the highest-priority source (smallest priority number) among those holding k
TopHolder(k) ==
    CHOOSE n \in Holders(k) : \A m \in Holders(k) : SOURCE_PRIORITY[n] <= SOURCE_PRIORITY[m]

\* C1: for every key present in more than one source of a bundle, merge (default
\* priority order) returns the value of the highest-priority source holding the
\* key, and the tracer's origin for the key is that source's origin.
C1_HighestPriorityWins ==
    (mResult.raised = "none" /\ mPriorityOrder = None) =>
        \A k \in {kA, kB} :
            Cardinality(Holders(k)) >= 2 =>
                /\ DictGet(mResult.merged, k) = DictGet(mSources[TopHolder(k)], k)
                /\ mTracer.enabled =>
                       mTracer.origins[k] = GetOriginForSource(TopHolder(k))

\* the names the call accepts: those of the priority order in force
RegisteredNames ==
    IF mPriorityOrder = None THEN DOMAIN SOURCE_PRIORITY ELSE SeqToSet(mPriorityOrder[1])

\* C4: merge raises the unknown-source ConfigurationError exactly when the bundle
\* holds a source name that is not in the priority order; when it raises it
\* returns no mapping and records no origin, and it raises nothing else.
C4_UnknownSourceRaisesIff ==
    mResult.raised # "pending" =>
        /\ mResult.raised \in {"none", "ConfigurationError"}
        /\ (mResult.raised = "ConfigurationError") <=>
               (\E n \in DOMAIN mSources : n \notin RegisteredNames)
        /\ mResult.raised = "ConfigurationError" =>
               (mResult.merged = EmptyDict /\ mTracer.origins = NoOrigins)

\* a bundle with registered sources and one unregistered source was refused
C4_Witness ==
    /\ mResult.raised = "ConfigurationError"
    /\ mPriorityOrder = None
    /\ DOMAIN mSources = {"system", "base_file", UnregisteredName}

(***************************************************************************)
(* PolicyManager called on its own                                         *)
(***************************************************************************)
sVaultProvider == <<"v", "a", "u", "l", "t", "P", "r", "o", "v", "i", "d", "e", "r">>

nMyVaultProviderImpl ==
    <<"M", "y", "V", "a", "u", "l", "t", "P", "r", "o", "v", "i", "d", "e", "r", "I", "m",
      "p", "l">>

\* the provider names a policy may be configured for
PolicyKeyPool == { sAzure, sAws, sVaultProvider, nAzure }

\* the policy strings a caller may write
PolicyStrPool == { sFail, sWarn, sFallback, <<"F", "A", "I", "L">>, <<"o", "f", "f">> }

MaxPolicies == 2

RECURSIVE PolicyDicts(_)
\* the dicts of at most n configured policies, in every insertion order
PolicyDicts(n) ==
    IF n = 0 THEN { EmptyDict }
    ELSE LET shorter == PolicyDicts(n - 1)
         IN  shorter \cup
             { Append(d, <<k, p>>) :
                 d \in { x \in shorter : Len(x) = n - 1 }, k \in PolicyKeyPool,
                 p \in PolicyStrPool }

UniqueKeys(d) == \A i, j \in DOMAIN d : d[i][1] = d[j][1] => i = j

\* the names handed to get_policy and handle_error
ProviderNamePool == { nMyVaultProviderImpl, nAzure, nAws, <<"K", "V">>, <<"R", "e", "d", "i", "s">> }

ErrorPool == { "Exception", "ConnectionError", "KeyError", "ProviderError" }

InitPolicy ==
    /\ pmPolicies \in {None} \cup { Some(d) : d \in { x \in PolicyDicts(MaxPolicies) : UniqueKeys(x) } }
    /\ pmDefault \in { None, Some(FAIL), Some(FALLBACK) }
    /\ pmProvider \in ProviderNamePool
    /\ pmError \in ErrorPool
    /\ pmResult = [policy |-> "pending", handled |-> FALSE, raised |-> NoError]
    /\ pmOther = [policies |-> None, policy |-> "idle"]
    /\ MergeIdle
    /\ ExpandIdle
    /\ CacheIdle
    /\ BreakerIdle
    /\ LoadIdle

\* manager.get_policy(provider_name)
GetPolicyCall ==
    /\ pmResult.policy = "pending"
    /\ pmResult' = [pmResult EXCEPT
                      !.policy = GetPolicy(NewPolicyManager(pmPolicies, pmDefault),
                                           pmProvider)]
    /\ UNCHANGED <<pmPolicies, pmDefault, pmProvider, pmError, pmOther, outsidePolicy>>

\* manager.handle_error(provider_name, error)
HandleErrorCall ==
    /\ pmResult.policy \notin {"pending", "idle"}
    /\ ~pmResult.handled
    /\ pmResult' = [pmResult EXCEPT
                      !.handled = TRUE,
                      !.raised = HandleError(NewPolicyManager(pmPolicies, pmDefault),
                                             pmProvider, pmError)]
    /\ UNCHANGED <<pmPolicies, pmDefault, pmProvider, pmError, pmOther, outsidePolicy>>

NextPolicy == GetPolicyCall \/ HandleErrorCall

SpecPolicy == InitPolicy /\ [][NextPolicy]_vars

\* C7: handle_error raises exactly when the policy get_policy resolved for the
\* provider is Fail, and what it raises is a ProviderError wrapping the original
\* error; under Warn or Fallback it returns normally whatever the error's type.
C7_HandleErrorRaisesIffFail ==
    pmResult.handled =>
        /\ (pmResult.raised # NoError) <=> (pmResult.policy = FAIL)
        /\ pmResult.policy = FAIL =>
               (pmResult.raised.type = "ProviderError" /\ pmResult.raised.cause = pmError)
        /\ pmResult.policy \in {WARN, FALLBACK} => pmResult.raised = NoError

\* a Warn provider's KeyError was absorbed
C7_Witness ==
    /\ pmResult.handled
    /\ pmResult.policy = WARN
    /\ pmError = "KeyError"
    /\ pmPolicies = Some(<< <<sAzure, sWarn>> >>)
    /\ pmProvider = nAzure
    /\ pmResult.raised = NoError

\* the policies the manager was configured with, and its default policy
Configured == IF pmPolicies = None THEN EmptyDict ELSE pmPolicies[1]

ManagerDefault == IF pmDefault = None THEN WARN ELSE pmDefault[1]

\* the configured keys equal to the name / matching it case-insensitively as a
\* substring in either direction
ExactKeys == { i \in DOMAIN Configured : Configured[i][1] = pmProvider }

SubstringKeys ==
    { i \in DOMAIN Configured :
        \/ Contains(Lower(Configured[i][1]), Lower(pmProvider))
        \/ Contains(Lower(pmProvider), Lower(Configured[i][1])) }

\* C8: get_policy(id) is the policy of the configured key equal to id when there
\* is one; otherwise the policy of a configured key that case-insensitively
\* contains id or is contained in id; otherwise the default policy (Warn unless
\* overridden).  With {"vaultProvider": "fail"}, "MyVaultProviderImpl" is Fail.
C8_GetPolicyMatching ==
    pmResult.policy # "pending" =>
        /\ IF ExactKeys # {}
           THEN \A i \in ExactKeys :
                    pmResult.policy = ParsePolicy(Configured[i][2], ManagerDefault)
           ELSE IF SubstringKeys # {}
           THEN \E i \in SubstringKeys :
                    pmResult.policy = ParsePolicy(Configured[i][2], ManagerDefault)
           ELSE pmResult.policy = ManagerDefault
        /\ (pmPolicies = Some(<< <<sVaultProvider, sFail>> >>)
               /\ pmProvider = nMyVaultProviderImpl) => pmResult.policy = FAIL
        /\ (Configured = EmptyDict /\ pmDefault = None) => pmResult.policy = WARN

\* the example: {"vaultProvider": "fail"} resolved MyVaultProviderImpl to Fail
C8_Witness ==
    /\ pmPolicies = Some(<< <<sVaultProvider, sFail>> >>)
    /\ pmProvider = nMyVaultProviderImpl
    /\ pmDefault = None
    /\ pmResult.policy = FAIL

(***************************************************************************)
(* Claims about load_env                                                   *)
(***************************************************************************)
RealSources == {"base_file", "env_specific", "docker_k8s", "system", "cloud_providers"}

\* the real sources of the bundle that supply key k
RealHolders(k) == { n \in DOMAIN sources \cap RealSources : DictHas(sources[n], k) }

\* C2: a caller-supplied or schema default for K never replaces a value a real
\* source supplies for K: when a real source holds K, the returned value of K is
\* one a real source supplied.
C2_DefaultsOnlyFillGaps ==
    pc = "done" =>
        \A k \in DictKeys(args.defaults) :
            RealHolders(k) # {} =>
                DictGet(merged, k) \in { DictGet(sources[n], k) : n \in RealHolders(k) }

\* C3: with an environment name, a key defined in the base file and in .env.{env}
\* and in no higher-priority source resolves to the environment-specific file's
\* value, with the environment-specific file as recorded origin.
C3_EnvSpecificOverridesBase ==
    (/\ pc = "done"
     /\ args.env
     /\ {"base_file", "env_specific"} \subseteq DOMAIN sources) =>
        \A k \in DictKeys(sources["base_file"]) \cap DictKeys(sources["env_specific"]) :
            RealHolders(k) = {"base_file", "env_specific"} =>
                /\ DictGet(merged, k) = DictGet(sources["env_specific"], k)
                /\ args.trace => origins[k] = FILE_ENV_SPECIFIC

\* the provider class names the explored calls use
ProviderNames == { p.name : p \in ProviderPool }

\* some key the caller supplied matches the provider name, exactly or partially
CallerKeyMatches(name) ==
    \E i \in DOMAIN args.failure_policy[1] :
        \/ args.failure_policy[1][i][1] = name
        \/ PartialMatch(args.failure_policy[1][i][1], name)

\* C9: the policies of a call are the caller's overrides merged with the built-in
\* defaults: a provider that no caller-supplied key matches keeps its built-in
\* default policy.
C9_OverridesMergedWithDefaults ==
    (pc \notin {"start", "idle"} /\ args.failure_policy # None) =>
        \A name \in ProviderNames :
            ~CallerKeyMatches(name) =>
                GetPolicy(policyManager, name) =
                    GetPolicy(NewPolicyManager(Some(CreateDefaultPolicies), None), name)

\* provider p raises during its fetch and the call's policy for it is Fail
FailsHard(p) == p.error # None /\ GetPolicy(policyManager, p.name) = FAIL

\* C5: when a provider of the list raises during its fetch and its failure policy
\* is Fail, load_env raises a ProviderError wrapping that error and returns no
\* configuration.
C5_FailPolicyAborts ==
    \A i \in DOMAIN args.providers :
        (provIdx > i /\ FailsHard(args.providers[i])) =>
            /\ pc = "raised"
            /\ raised = ProviderError(args.providers[i].error[1])
            /\ merged = EmptyDict

\* the second provider failed under Fail after the first had contributed
C5_Witness ==
    /\ pc = "raised"
    /\ raised.type = "ProviderError"
    /\ provIdx = 3
    /\ providerVars # EmptyDict
    /\ args.audit

\* provider p raises during its fetch and the call's policy for it is Warn or Fallback
Absorbed(p) == p.error # None /\ GetPolicy(policyManager, p.name) \in {WARN, FALLBACK}

NotAbsorbed(p) == ~Absorbed(p)

\* the provider loop's state before its first iteration, tracing and audit aside
FreshLoop ==
    [result |-> EmptyDict, cache |-> NewCache(args.cache_ttl, args.cache),
     origins |-> NoOrigins, audit |-> NoAudit, raised |-> NoError]

\* the iteration for an absorbed provider only moves on to the next provider
C6_AbsorbedStep ==
    (/\ pc = "providers"
     /\ provIdx <= Len(args.providers)
     /\ Absorbed(args.providers[provIdx])) =>
        /\ pc' = "providers"
        /\ provIdx' = provIdx + 1
        /\ UNCHANGED <<providerVars, cacheObj, origins, auditEntries, sources, merged,
                       raised>>

\* what the providers contributed is what the list without the absorbed ones gives
C6_SameAsWithout ==
    pc \in {"expand", "fill", "done"} =>
        /\ providerVars =
             LoadFromProviders(SelectSeq(args.providers, NotAbsorbed), 1, FreshLoop,
                               policyManager, FALSE, FALSE, world.now).result
        /\ \A i \in DOMAIN args.providers : ~FailsHard(args.providers[i])

\* C6: when a provider raises and its policy is Warn or Fallback, load_env goes
\* on, the failed provider contributes no key, and every other provider and
\* source contributes what it would without the failed provider in the list.
C6_WarnFallbackAbsorbed == [][C6_AbsorbedStep]_vars /\ []C6_SameAsWithout

\* a call completed although its first provider had raised, with the second
\* provider's keys in the bundle
C6_Witness ==
    /\ pc = "done"
    /\ Len(args.providers) = 2
    /\ Absorbed(args.providers[1])
    /\ args.providers[2].error = None
    /\ "cloud_providers" \in DOMAIN sources
    /\ sources["cloud_providers"] = args.providers[2].values

(***************************************************************************)
(* load_env over .env files whose values refer to one another              *)
(***************************************************************************)
MaxVars == 3

Letters == <<"A", "B", "C", "D", "E", "F">>

\* the i-th variable of a file
VarName(i) == <<Letters[i]>>

\* what a line of the file may put after the "=": a literal, one reference,
\* or text with two references
ValuePool ==
    { <<"1">>, <<"x">> \o Ref(VarName(1)) \o Ref(VarName(MaxVars)) }
      \cup { Ref(VarName(i)) : i \in 1..MaxVars }

\* for each variable: no line (None) or the value of its line
FileChoices == [1..MaxVars -> {None} \cup { Some(v) : v \in ValuePool }]

RECURSIVE FileFrom(_, _)
\* the parsed lines KEY=value of the file, in the order of the file
FileFrom(choice, i) ==
    IF i > MaxVars THEN EmptyDict
    ELSE IF choice[i] = None THEN FileFrom(choice, i + 1)
         ELSE << <<VarName(i), choice[i][1]>> >> \o FileFrom(choice, i + 1)

CyclicEnvFilePool ==
    { Some(<< <<kA, <<"e">>>> >>),
      Some(<< <<kA, Ref(kB)>>, <<kB, <<"y">> \o Ref(kA)>> >>) }

InitFiles ==
    /\ MergeIdle
    /\ PolicyIdle
    /\ ExpandIdle
    /\ CacheIdle
    /\ BreakerIdle
    /\ args \in [env : BOOLEAN, trace : {FALSE}, audit : {FALSE}, cache : {FALSE},
                 cache_ttl : {DefaultCacheTtl}, expand_vars : BOOLEAN,
                 failure_policy : {None}, defaults : {EmptyDict},
                 providers : { <<ProviderUp(nAws, << <<kA, <<"w">>>> >>)>> },
                 priority : {DefaultPriority}]
    /\ \E choice \in FileChoices :
          world \in [base : { Some(FileFrom(choice, 1)) }, envfile : CyclicEnvFilePool,
                     docker : {NotMounted}, k8s : {NotMounted},
                     environ : {EmptyDict}, now : {0}]
    /\ Idle

SpecFiles == InitFiles /\ [][Next]_vars

RECURSIVE RefsFrom(_, _)
\* the names NAME of the references ${NAME} that the pattern finds in v from i on
RefsFrom(v, i) ==
    IF i > Len(v) THEN {}
    ELSE LET j == MatchEnd(v, i)
         IN  IF j = 0 THEN RefsFrom(v, i + 1)
             ELSE {SubSeq(v, i + 2, j - 1)} \cup RefsFrom(v, j + 1)

\* the variables of the context that value v refers to directly
DirectRefs(v, ctx) == RefsFrom(v, 1) \cap DictKeys(ctx)

\* the reference graph of a context: <<a, b>> when the value of a refers to b
RefEdges(ctx) ==
    { e \in DictKeys(ctx) \X DictKeys(ctx) : e[2] \in DirectRefs(DictGet(ctx, e[1]), ctx) }

RECURSIVE PathsWithin(_, _)
\* the pairs joined by a path of 1..n edges of R
PathsWithin(R, n) ==
    IF n <= 1 THEN R
    ELSE LET P == PathsWithin(R, n - 1)
         IN  P \cup { <<x[1][1], x[2][2]>> : x \in { y \in P \X R : y[1][2] = y[2][1] } }

RefPaths(ctx) == PathsWithin(RefEdges(ctx), Cardinality(DictKeys(ctx)))

\* the variables that lie on a cycle, given the paths of the reference graph
CycleMembers(paths) == { p[1] : p \in { q \in paths : q[1] = q[2] } }

\* the variables that lie on a cycle of references
OnCycle(ctx) == CycleMembers(RefPaths(ctx))

\* the references of v lead to a cycle of the context whose paths are given
ReachesCycle(v, ctx, paths) ==
    \E b \in DirectRefs(v, ctx) :
        \/ b \in CycleMembers(paths)
        \/ \E c \in CycleMembers(paths) : <<b, c>> \in paths

\* the files that load_env has just parsed, or had parsed when it failed
FilesParsed ==
    LET base == IF pc \in {"envfile", "raised"} THEN {world.base} ELSE {}
        envf == IF args.env /\ pc \in {"mounted", "raised"} THEN {world.envfile} ELSE {}
    IN  { f[1] : f \in (base \cup envf) \ {None} }

\* expanding v in the context raises the circular-reference error exactly when
\* the references of v reach a cycle, and the error names a variable on a cycle
ExpandRaisesOnCycle(v, ctx, paths) ==
    LET r == ExpandVariables(v, ctx)
    IN  /\ (r.err # None) <=> ReachesCycle(v, ctx, paths)
        /\ r.err # None => r.err[1] \in CycleMembers(paths)

\* load_env has ended with the circular-reference error naming one of `names`
FailedCircular(names) ==
    /\ pc = "raised"
    /\ \E n \in names : raised = CircularReferenceError(n)

BaseFileRead == pc \notin {"idle", "start", "defaults", "base"}

EnvFileRead == BaseFileRead /\ pc # "envfile" /\ args.env

CyclesOf(file) == IF file = None THEN {} ELSE OnCycle(file[1])

\* C10: expanding a value whose references reach a cycle of the context
\* (a variable referring to itself, two variables referring to each other, a
\* longer cycle) raises the circular-reference error naming a variable on a
\* cycle, and does so only then; and once load_env has read, with expansion
\* on, a file that holds a cycle, the call has failed with that error.
C10_CycleRaisesCircularReference ==
    /\ \A ctx \in FilesParsed :
          LET paths == RefPaths(ctx)
          IN  \A v \in ValuePool \cup { ctx[i][2] : i \in 1..Len(ctx) } :
                  ExpandRaisesOnCycle(v, ctx, paths)
    /\ (args.expand_vars /\ BaseFileRead /\ CyclesOf(world.base) # {})
          => FailedCircular(CyclesOf(world.base))
    /\ (args.expand_vars /\ EnvFileRead /\ CyclesOf(world.envfile) # {})
          => FailedCircular(CyclesOf(world.base) \cup CyclesOf(world.envfile))

\* load_env failed on a base file whose variables form one cycle through all
\* of them, none referring to itself (with three variables: A -> B -> C -> A)
C10_Witness ==
    /\ world.base # None
    /\ LET ctx == world.base[1]
       IN  /\ Cardinality(DictKeys(ctx)) = MaxVars
           /\ Cardinality(RefEdges(ctx)) = MaxVars
           /\ OnCycle(ctx) = DictKeys(ctx)
           /\ \A k \in DictKeys(ctx) : <<k, k>> \notin RefEdges(ctx)
           /\ FailedCircular(OnCycle(ctx))

(***************************************************************************)
(* _expand_variables called on its own                                     *)
(***************************************************************************)
kMissing == <<"M", "I", "S", "S", "I", "N", "G">>

\* what the context may hold for a variable
ContextValuePool ==
    { <<"1">>,
      Ref(kA) \o <<"-", "2">>,
      Ref(kB),
      <<"x">> \o Ref(kC) \o Ref(kA),
      Ref(kMissing) }

ContextChoices == [1..MaxVars -> {None} \cup { Some(v) : v \in ContextValuePool }]

RECURSIVE ContextFrom(_, _)
\* the env_dict holding the chosen variables, in order
ContextFrom(choice, i) ==
    IF i > MaxVars THEN EmptyDict
    ELSE IF choice[i] = None THEN ContextFrom(choice, i + 1)
         ELSE << <<VarName(i), choice[i][1]>> >> \o ContextFrom(choice, i + 1)

\* the values expanded: those of the context, further references, and text
\* with "$", "{" and "}" that forms no reference
TopValuePool ==
    ContextValuePool \cup
    { << >>,
      Ref(kC),
      Ref(kMissing) \o <<"/">> \o Ref(kB),
      <<"$">> \o Ref(kA),
      <<"$">>,
      <<"a", "$", "b">>,
      <<"$", "{">>,
      <<"$", "{", "}">>,
      <<"$", "{", "A">>,
      <<"$", "A", "}">>,
      <<"{", "A", "}", "$">>,
      <<"$", "{", "}", "x", "}">> }

InitExpand ==
    /\ \E choice \in ContextChoices : xCtx = ContextFrom(choice, 1)
    /\ xValue \in TopValuePool
    /\ xResult = [raised |-> "pending", err |-> None, out |-> << >>]
    /\ xParsed = [raised |-> "pending", err |-> None, vars |-> EmptyDict]
    /\ xAgain = [value |-> None, merged |-> None]
    /\ CacheIdle
    /\ BreakerIdle
    /\ MergeIdle
    /\ PolicyIdle
    /\ LoadIdle

\* _expand_variables(value, env_dict)
ExpandCall ==
    /\ xResult.raised = "pending"
    /\ LET r == ExpandVariables(xValue, xCtx)
       IN  xResult' = [raised |-> IF r.err = None THEN "none" ELSE "EnvLoaderError",
                       err |-> r.err, out |-> r.out]
    /\ UNCHANGED <<xValue, xCtx, xParsed, xAgain, outsideExpand>>

\* _parse_dotenv(path, expand_vars=True) on a file whose lines are the context
ParseCall ==
    /\ xParsed.raised = "pending"
    /\ LET r == ParseDotenv(xCtx, TRUE)
       IN  xParsed' = [raised |-> IF r.err = None THEN "none" ELSE "EnvLoaderError",
                       err |-> r.err, vars |-> r.vars]
    /\ UNCHANGED <<xValue, xCtx, xResult, xAgain, outsideExpand>>

NextExpand == ExpandCall \/ ParseCall

SpecExpand == InitExpand /\ [][NextExpand]_vars

RECURSIVE MatchesFrom(_, _)
\* the occurrences <<first, last>> of ${NAME} that the pattern finds in v from i on
MatchesFrom(v, i) ==
    IF i > Len(v) THEN {}
    ELSE LET j == MatchEnd(v, i)
         IN  IF j = 0 THEN MatchesFrom(v, i + 1)
             ELSE {<<i, j>>} \cup MatchesFrom(v, j + 1)

\* the name of an occurrence
NameAt(v, m) == SubSeq(v, m[1] + 2, m[2] - 1)

\* the occurrences in the call's value of references to names the context lacks
MissingOccurrences ==
    { m \in MatchesFrom(xValue, 1) : NameAt(xValue, m) \notin DictKeys(xCtx) }

\* C11: a reference ${NAME} to a name that is no key of the context stays in
\* the output as the text ${NAME}, between the expansions of what precedes and
\* what follows it, and is never the reason of an error: a value all of whose
\* references are to missing names comes back unchanged.
C11_MissingReferenceLeftLiteral ==
    xResult.raised # "pending" =>
        /\ \A m \in MissingOccurrences :
              LET before == ExpandVariables(SubSeq(xValue, 1, m[1] - 1), xCtx)
                  after == ExpandVariables(SubSeq(xValue, m[2] + 1, Len(xValue)), xCtx)
              IN  IF before.err = None /\ after.err = None
                  THEN /\ xResult.raised = "none"
                       /\ xResult.out = before.out \o SubSeq(xValue, m[1], m[2]) \o after.out
                  ELSE xResult.raised = "EnvLoaderError"
        /\ (MissingOccurrences = MatchesFrom(xValue, 1))
              => (xResult.raised = "none" /\ xResult.out = xValue)

\* ${MISSING}/${B} was expanded in a context that holds B but not MISSING
C11_Witness ==
    /\ xResult.raised = "none"
    /\ xValue = Ref(kMissing) \o <<"/">> \o Ref(kB)
    /\ DictHas(xCtx, kB)
    /\ DictGet(xCtx, kB) = <<"1">>
    /\ xResult.out = Ref(kMissing) \o <<"/", "1">>

\* v holds text of the form ${NAME} with a NAME of one or more characters other than "}"
HasReference(v) ==
    \E i \in 1..Len(v), j \in 1..Len(v) :
        /\ j >= i + 3
        /\ v[i] = "$"
        /\ v[i + 1] = "{"
        /\ v[i + 2] # "}"
        /\ v[j] = "}"

\* the positions of the call's value that hold a "$" which is not followed by
\* "{" and lies in no reference
BareDollars ==
    { i \in 1..Len(xValue) :
        /\ xValue[i] = "$"
        /\ (i = Len(xValue) \/ xValue[i + 1] # "{")
        /\ \A m \in MatchesFrom(xValue, 1) : i < m[1] \/ i > m[2] }

\* C12: in every context, a value that holds no reference ${...} comes back
\* unchanged and the call raises nothing; and a "$" that is not followed by
\* "{" stays in the output as a character, between the expansions of what
\* precedes and what follows it.
C12_NoReferenceUnchanged ==
    xResult.raised # "pending" =>
        /\ ~HasReference(xValue) => (xResult.raised = "none" /\ xResult.out = xValue)
        /\ \A i \in BareDollars :
              LET before == ExpandVariables(SubSeq(xValue, 1, i - 1), xCtx)
                  after == ExpandVariables(SubSeq(xValue, i + 1, Len(xValue)), xCtx)
              IN  (before.err = None /\ after.err = None) =>
                      /\ xResult.raised = "none"
                      /\ xResult.out = before.out \o <<"$">> \o after.out

\* a$b was expanded in a context that holds variables
C12_Witness ==
    /\ xResult.raised = "none"
    /\ xValue = <<"a", "$", "b">>
    /\ xResult.out = <<"a", "$", "b">>
    /\ Len(xCtx) = MaxVars

\* the occurrences in the call's value of references to names the context holds
ResolvableOccurrences ==
    { m \in MatchesFrom(xValue, 1) : NameAt(xValue, m) \in DictKeys(xCtx) }

\* {A: "1", B: "${A}-2"}, and the same with C: "${B}" on top
TwoStepContext == << <<kA, <<"1">>>>, <<kB, Ref(kA) \o <<"-", "2">>>> >>

ThreeStepContext == TwoStepContext \o << <<kC, Ref(kB)>> >>

\* C13: in a context without cycles the call raises nothing and every
\* reference ${NAME} to a name of the context is replaced by the expansion of
\* the value of NAME (itself expanded the same way, to any depth), the rest of
\* the value being expanded around it; {A: "1", B: "${A}-2"} turns ${B} into
\* "1-2", and a file with a chain of three comes out of _parse_dotenv with no
\* reference to one of its variables left.
C13_ChainedReferencesResolved ==
    OnCycle(xCtx) = {} =>
        /\ xResult.raised # "pending" =>
              /\ xResult.raised = "none"
              /\ \A m \in ResolvableOccurrences :
                    LET before == ExpandVariables(SubSeq(xValue, 1, m[1] - 1), xCtx)
                        inner == ExpandVariables(DictGet(xCtx, NameAt(xValue, m)), xCtx)
                        after == ExpandVariables(SubSeq(xValue, m[2] + 1, Len(xValue)), xCtx)
                    IN  xResult.out = before.out \o inner.out \o after.out
              /\ (xCtx = TwoStepContext /\ xValue = Ref(kB))
                    => xResult.out = <<"1", "-", "2">>
              /\ (xCtx = ThreeStepContext /\ xValue = Ref(kC))
                    => xResult.out = <<"1", "-", "2">>
        /\ xParsed.raised # "pending" =>
              /\ xParsed.raised = "none"
              /\ DictKeys(xParsed.vars) = DictKeys(xCtx)
              /\ \A k \in DictKeys(xCtx) :
                    RefsFrom(DictGet(xParsed.vars, k), 1) \cap DictKeys(xCtx) = {}
              /\ xCtx = ThreeStepContext =>
                    xParsed.vars = << <<kA, <<"1">>>>, <<kB, <<"1", "-", "2">>>>,
                                      <<kC, <<"1", "-", "2">>>> >>

\* ${C} was expanded through C -> B -> A, and the file with that chain parsed
C13_Witness ==
    /\ xCtx = ThreeStepContext
    /\ xValue = Ref(kC)
    /\ xResult.raised = "none"
    /\ xResult.out = <<"1", "-", "2">>
    /\ xParsed.raised = "none"

(***************************************************************************)
(* References across sources in load_env                                   *)
(***************************************************************************)
RECURSIVE SubstituteFrom(_, _, _)
\* v from i on, each ${NAME} with NAME a key of `final` replaced by final[NAME]
SubstituteFrom(v, i, final) ==
    IF i > Len(v) THEN << >>
    ELSE LET j == MatchEnd(v, i)
         IN  IF j = 0 THEN <<v[i]>> \o SubstituteFrom(v, i + 1, final)
             ELSE IF DictHas(final, SubSeq(v, i + 2, j - 1))
                  THEN DictGet(final, SubSeq(v, i + 2, j - 1))
                           \o SubstituteFrom(v, j + 1, final)
                  ELSE SubSeq(v, i, j) \o SubstituteFrom(v, j + 1, final)

\* the dicts the call read, as the sources hold them before any expansion
RawSources ==
    { args.defaults, world.environ, MountedVars(world.docker), MountedVars(world.k8s) }
      \cup { f[1] : f \in ({world.base} \cup (IF args.env THEN {world.envfile} ELSE {})) \ {None} }
      \cup { args.providers[i].values : i \in 1..Len(args.providers) }

\* the values that the sources give for key k, as written
RawValues(k) == { DictGet(d, k) : d \in { x \in RawSources : DictHas(x, k) } }

\* C14: in the result of load_env (expansion on), the value of every key is
\* the value some source wrote for it with each reference ${NAME} to a name of
\* the result replaced by the final value of NAME.
C14_ReferencesSeeFinalValues ==
    (pc = "done" /\ args.expand_vars) =>
        \A k \in DictKeys(merged) :
            DictGet(merged, k) \in { SubstituteFrom(v, 1, merged) : v \in RawValues(k) }

(***************************************************************************)
(* The audit trail of load_env                                             *)
(***************************************************************************)
\* C15: when load_env was called with audit=True and has returned, every key
\* of the configuration has an entry in the audit trail, tracing on or off.
C15_AuditCoversEveryKey ==
    (pc = "done" /\ args.audit) => DictKeys(merged) \subseteq DOMAIN auditEntries

(***************************************************************************)
(* load_env called with the priority argument                              *)
(***************************************************************************)
InitPriority ==
    /\ MergeIdle
    /\ PolicyIdle
    /\ ExpandIdle
    /\ CacheIdle
    /\ BreakerIdle
    /\ args \in [env : BOOLEAN, trace : BOOLEAN, audit : BOOLEAN, cache : {FALSE},
                 cache_ttl : {DefaultCacheTtl}, expand_vars : BOOLEAN,
                 failure_policy : {None}, defaults : {EmptyDict},
                 providers : { <<ProviderUp(nAws, << <<kC, <<"w">>>> >>)>> },
                 priority : {"file", "system"}]
    /\ world \in [base : BasePool, envfile : { Some(<< <<kB, <<"e">>>> >>) },
                  docker : {NotMounted}, k8s : {NotMounted},
                  environ : EnvironPool, now : {0}]
    /\ Idle

SpecPriority == InitPriority /\ [][Next]_vars

\* the keys that the base file and the system environment define, and no other
\* source of the call
FileAndSystemKeys ==
    IF world.base = None THEN {}
    ELSE { k \in DictKeys(world.base[1]) \cap DictKeys(world.environ) :
             \A n \in DOMAIN sources :
                 n \notin {"base_file", "system"} => ~DictHas(sources[n], k) }

\* C16: for a key that the base file and the system environment both define,
\* load_env(priority="file") returns the file's value and
\* load_env(priority="system") returns the system environment's value.
C16_PriorityArgumentDecides ==
    pc = "done" =>
        \A k \in FileAndSystemKeys :
            DictGet(merged, k) = IF args.priority = "file"
                                 THEN DictGet(sources["base_file"], k)
                                 ELSE DictGet(world.environ, k)

(***************************************************************************)
(* load_env called again and again over the same sources                   *)
(***************************************************************************)
MaxCalls == 3

CallArgs(env, trace, audit, cache, defaults, providers) ==
    [env |-> env, trace |-> trace, audit |-> audit, cache |-> cache,
     cache_ttl |-> DefaultCacheTtl, expand_vars |-> TRUE, failure_policy |-> None,
     defaults |-> defaults, providers |-> providers, priority |-> DefaultPriority]

\* the calls made: with and without cache, trace, audit and defaults, with
\* providers of one class that answer differently, that are absorbed, that abort
CallArgsPool ==
    { CallArgs(FALSE, FALSE, FALSE, TRUE, EmptyDict,
               <<ProviderUp(nAws, << <<kC, <<"w">>>> >>)>>),
      CallArgs(FALSE, FALSE, FALSE, TRUE, EmptyDict,
               <<ProviderUp(nAws, << <<kC, <<"v">>>> >>)>>),
      CallArgs(FALSE, FALSE, FALSE, FALSE, << <<kA, <<"d">>>> >>, << >>),
      CallArgs(TRUE, FALSE, TRUE, TRUE, EmptyDict,
               <<ProviderDown(nAws, "TimeoutError")>>),
      CallArgs(FALSE, TRUE, FALSE, FALSE, EmptyDict,
               <<ProviderDown(nAzure, "ConnectionError")>>),
      CallArgs(TRUE, TRUE, TRUE, FALSE, << <<kC, <<"d">>>> >>,
               <<ProviderUp(nAzure, << <<kA, <<"z">>>> >>)>>) }

InitCalls ==
    /\ MergeIdle
    /\ PolicyIdle
    /\ ExpandIdle
    /\ CacheIdle
    /\ BreakerIdle
    /\ args \in CallArgsPool
    /\ world \in [base : { Some(<< <<kA, <<"b">>>>, <<kB, Ref(kC)>> >>) },
                  envfile : { Some(<< <<kB, <<"e">>>> >>) },
                  docker : {NotMounted}, k8s : {NotMounted},
                  environ : { << <<kA, <<"s">>>> >> }, now : {0}]
    /\ Idle

\* what the call gave its caller: the exception, or the configuration
Outcome == [raised |-> raised, config |-> IF pc = "done" THEN merged ELSE EmptyDict]

\* load_env has returned or raised; some time later the caller calls it again.
\* Nothing is cleared here: what the next call sees is what its own statements
\* create or overwrite.
NewCall ==
    /\ pc \in {"done", "raised"}
    /\ calls < MaxCalls
    /\ calls' = calls + 1
    /\ refCall' \in {refCall, Some([args |-> args, outcome |-> Outcome])}
    /\ args' \in CallArgsPool
    /\ \E dt \in {0, DefaultCacheTtl} : world' = [world EXCEPT !.now = @ + dt]
    /\ pc' = "start"
    /\ raised' = NoError
    /\ UNCHANGED <<policyManager, sources, origins, auditEntries, cacheObj, provIdx,
                   providerVars, merged, fetched>>
    /\ UNCHANGED <<mergeVars, policyVars, expansionVars, cacheVars, breakerVars>>

NextCalls == Next \/ NewCall

SpecCalls == InitCalls /\ [][NextCalls]_vars

\* C17: a call of load_env that has ended, with the arguments of an earlier
\* call over the same sources, has given what that call gave, whatever calls
\* (returned or failed) were made in between and however much time passed.
C17_NoStateAcrossCalls ==
    (pc \in {"done", "raised"} /\ refCall # None /\ refCall[1].args = args)
        => Outcome = refCall[1].outcome

\* the last of the calls repeats an earlier one, with the cache on and a
\* provider answering, after the cache's ttl has passed
C17_Witness ==
    /\ calls = MaxCalls
    /\ pc = "done"
    /\ refCall # None
    /\ refCall[1].args = args
    /\ args.cache
    /\ args.providers # << >>
    /\ world.now >= DefaultCacheTtl
    /\ DictHas(merged, kC)

(***************************************************************************)
(* load_env with providers that are not available                          *)
(***************************************************************************)
AvailabilityPool ==
    { ProviderUp(nAws, << <<kB, <<"w">>>> >>),
      ProviderUnavailable(nAws, None, << <<kC, <<"u">>>> >>),
      ProviderUnavailable(nAzure, Some("ConnectionError"), EmptyDict),
      ProviderUnavailable(nVault, None, EmptyDict) }

InitAvailability ==
    /\ MergeIdle
    /\ PolicyIdle
    /\ ExpandIdle
    /\ CacheIdle
    /\ BreakerIdle
    /\ args \in [env : {FALSE}, trace : BOOLEAN, audit : BOOLEAN, cache : BOOLEAN,
                 cache_ttl : {DefaultCacheTtl}, expand_vars : {TRUE},
                 failure_policy : {None}, defaults : {EmptyDict},
                 providers : SeqsUpTo(AvailabilityPool, MaxProviders),
                 priority : {DefaultPriority}]
    /\ world \in [base : { Some(<< <<kA, <<"b">>>> >>) }, envfile : {None},
                  docker : DockerPool, k8s : K8sPool,
                  environ : EnvironPool, now : {0}]
    /\ Idle

SpecAvailability == InitAvailability /\ [][Next]_vars

\* is_available() of the provider that a call of get_all() was made on
AvailableWhenFetched(f) ==
    IF f.kind = "listed" THEN args.providers[f.at].available
    ELSE IF f.kind = "docker" THEN world.docker.available
    ELSE world.k8s.available

\* C18: load_env calls get_all() only on providers whose is_available()
\* returns True, be they passed in the providers argument or the mounted
\* secret providers it builds itself.
C18_AvailabilityConsulted ==
    \A f \in fetched : AvailableWhenFetched(f)

(***************************************************************************)
(* One Cache used by one caller: set, get, invalidate, and time passing    *)
(***************************************************************************)
\* the ttl of the Cache, and how far the clock runs (seconds)
CacheTtl == 2

MaxClock == 4

CacheKeys == { kA, kB }

CacheValues == { <<"v">>, <<"w">> }

InitCache ==
    /\ theCache = NewCache(CacheTtl, TRUE)
    /\ clock = 0
    /\ lastCall = [op |-> "none", key |-> None, result |-> None, at |-> 0]
    /\ liveSets = NoEntries
    /\ threads = << >>
    /\ BreakerIdle
    /\ MergeIdle
    /\ PolicyIdle
    /\ ExpandIdle
    /\ LoadIdle

\* cache.set(k, v)
CacheSetCall ==
    /\ \E k \in CacheKeys, v \in CacheValues :
          /\ theCache' = CacheSet(theCache, k, v, clock)
          /\ liveSets' = With(liveSets, k, [value |-> v, at |-> clock])
          /\ lastCall' = [op |-> "set", key |-> Some(k), result |-> None, at |-> clock]
    /\ UNCHANGED <<clock, threads, outsideCache>>

\* cache.get(k)
CacheGetCall ==
    /\ \E k \in CacheKeys :
          LET r == CacheGet(theCache, k, clock)
          IN  /\ theCache' = r.cache
              /\ lastCall' = [op |-> "get", key |-> Some(k), result |-> r.value,
                              at |-> clock]
    /\ UNCHANGED <<clock, liveSets, threads, outsideCache>>

\* cache.invalidate(k) or cache.invalidate()
CacheInvalidateCall ==
    /\ \E key \in {None} \cup { Some(k) : k \in CacheKeys } :
          /\ theCache' = CacheInvalidate(theCache, key)
          /\ liveSets' = IF key = None THEN NoEntries ELSE Without(liveSets, key[1])
          /\ lastCall' = [op |-> "invalidate", key |-> key, result |-> None, at |-> clock]
    /\ UNCHANGED <<clock, threads, outsideCache>>

\* a second passes
Tick ==
    /\ clock < MaxClock
    /\ clock' = clock + 1
    /\ UNCHANGED <<theCache, lastCall, liveSets, threads, outsideCache>>

NextCache == CacheSetCall \/ CacheGetCall \/ CacheInvalidateCall \/ Tick

SpecCache == InitCache /\ [][NextCache]_vars

\* what get(k) at time t is to return: the value of the last set of k not
\* invalidated since, while fewer than ttl seconds have passed since that set
ExpectedGet(k, t) ==
    IF k \in DOMAIN liveSets /\ t - liveSets[k].at < theCache.ttl
    THEN Some(liveSets[k].value)
    ELSE None

\* get(k) returned the expected value, and after a miss k is in neither map
C19_GetReturns ==
    lastCall.op = "get" =>
        /\ lastCall.result = ExpectedGet(lastCall.key[1], lastCall.at)
        /\ lastCall.result = None =>
              /\ lastCall.key[1] \notin DOMAIN theCache.cache
              /\ lastCall.key[1] \notin DOMAIN theCache.timestamps

\* k is in the maps and its ttl has passed
Expired(k) ==
    /\ k \in DOMAIN theCache.timestamps
    /\ clock - theCache.timestamps[k] >= theCache.ttl

\* an entry leaves the maps only in a get of its key that finds it expired, or
\* in an invalidate of its key or of all keys: never by time passing alone
C19_RemovedOnlyByRead ==
    \A k \in DOMAIN theCache.cache :
        k \notin DOMAIN theCache'.cache =>
            /\ clock' = clock
            /\ \/ lastCall'.op = "get" /\ lastCall'.key = Some(k) /\ Expired(k)
               \/ lastCall'.op = "invalidate" /\ lastCall'.key \in {None, Some(k)}

\* C19: on an enabled Cache, after any sequence of set, get and invalidate,
\* get(k) returns the value of the most recent set(k, v) if k was not
\* invalidated since and fewer than ttl seconds have passed since that set,
\* and None otherwise; an expired entry stays in the maps until a get of its
\* key, and that get removes it.
C19_CacheGetSemantics ==
    /\ []C19_GetReturns
    /\ [][C19_RemovedOnlyByRead]_vars

\* a get found an entry whose ttl had just passed, returned None and removed
\* it, the entry having stayed in the maps until then
C19_Witness ==
    /\ lastCall.op = "get"
    /\ lastCall.result = None
    /\ lastCall.key[1] \in DOMAIN liveSets
    /\ lastCall.at - liveSets[lastCall.key[1]].at = CacheTtl
    /\ lastCall.key[1] \notin DOMAIN theCache.cache

(***************************************************************************)
(* One Cache shared by several threads.  The class takes no lock, so the   *)
(* threads interleave between the statements of get, set and invalidate;   *)
(* each action below is one statement of one thread.                       *)
(***************************************************************************)
MaxThreads == 2

ThreadIds == 1..MaxThreads

IdleThread == [op |-> "idle", key |-> None, value |-> None, pc |-> "idle",
               error |-> "none"]

\* the calls a thread can make, at their first statement
ThreadCalls ==
    { [op |-> "get", key |-> Some(k), value |-> None, pc |-> "get34", error |-> "none"] :
        k \in CacheKeys }
    \cup { [op |-> "set", key |-> Some(k), value |-> Some(v), pc |-> "set55",
            error |-> "none"] : k \in CacheKeys, v \in CacheValues }
    \cup { [op |-> "invalidate", key |-> key, value |-> None, pc |-> "inv1",
            error |-> "none"] : key \in {None} \cup { Some(k) : k \in CacheKeys } }

InitThreads ==
    /\ theCache = NewCache(CacheTtl, TRUE)
    /\ clock = 0
    /\ lastCall = [op |-> "none", key |-> None, result |-> None, at |-> 0]
    /\ liveSets = NoEntries
    /\ threads = [t \in ThreadIds |-> IdleThread]
    /\ BreakerIdle
    /\ MergeIdle
    /\ PolicyIdle
    /\ ExpandIdle
    /\ LoadIdle

\* thread t moves to statement label
Goto(t, label) == threads' = [threads EXCEPT ![t].pc = label]

\* the call of thread t returns
Return(t) == threads' = [threads EXCEPT ![t] = IdleThread]

\* the call of thread t ends with an exception, which the thread keeps
Raise(t, error) == threads' = [threads EXCEPT ![t] = [IdleThread EXCEPT !.error = error]]

ThreadFrame == UNCHANGED <<clock, lastCall, liveSets, outsideCache>>

\* a thread without a call in progress calls get, set or invalidate
StartCall ==
    /\ \E t \in ThreadIds, call \in ThreadCalls :
          /\ threads[t] = IdleThread
          /\ threads' = [threads EXCEPT ![t] = call]
    /\ UNCHANGED theCache
    /\ ThreadFrame

\* get: if key not in self._cache: return None
GetCheckCache ==
    /\ \E t \in ThreadIds :
          /\ threads[t].pc = "get34"
          /\ IF threads[t].key[1] \in DOMAIN theCache.cache
             THEN Goto(t, "valid67")
             ELSE Return(t)
    /\ UNCHANGED theCache
    /\ ThreadFrame

\* _is_valid: if key not in self._timestamps: return False
IsValidCheck ==
    /\ \E t \in ThreadIds :
          /\ threads[t].pc = "valid67"
          /\ IF threads[t].key[1] \in DOMAIN theCache.timestamps
             THEN Goto(t, "valid70")
             ELSE Goto(t, "get39")
    /\ UNCHANGED theCache
    /\ ThreadFrame

\* _is_valid: elapsed = time.time() - self._timestamps[key]; return elapsed < ttl
IsValidElapsed ==
    /\ \E t \in ThreadIds :
          /\ threads[t].pc = "valid70"
          /\ IF threads[t].key[1] \notin DOMAIN theCache.timestamps
             THEN Raise(t, "KeyError")
             ELSE IF clock - theCache.timestamps[threads[t].key[1]] < theCache.ttl
                  THEN Goto(t, "get43")
                  ELSE Goto(t, "get39")
    /\ UNCHANGED theCache
    /\ ThreadFrame

\* get: self._cache.pop(key, None)
GetPopCache ==
    /\ \E t \in ThreadIds :
          /\ threads[t].pc = "get39"
          /\ theCache' = [theCache EXCEPT !.cache = Without(@, threads[t].key[1])]
          /\ Goto(t, "get40")
    /\ ThreadFrame

\* get: self._timestamps.pop(key, None); return None
GetPopTimestamps ==
    /\ \E t \in ThreadIds :
          /\ threads[t].pc = "get40"
          /\ theCache' = [theCache EXCEPT !.timestamps = Without(@, threads[t].key[1])]
          /\ Return(t)
    /\ ThreadFrame

\* get: return self._cache[key]
GetReturn ==
    /\ \E t \in ThreadIds :
          /\ threads[t].pc = "get43"
          /\ IF threads[t].key[1] \in DOMAIN theCache.cache
             THEN Return(t)
             ELSE Raise(t, "KeyError")
    /\ UNCHANGED theCache
    /\ ThreadFrame

\* set: self._cache[key] = value
SetValue ==
    /\ \E t \in ThreadIds :
          /\ threads[t].pc = "set55"
          /\ theCache' = [theCache EXCEPT
                !.cache = With(@, threads[t].key[1], threads[t].value[1])]
          /\ Goto(t, "set56")
    /\ ThreadFrame

\* set: self._timestamps[key] = time.time()
SetTimestamp ==
    /\ \E t \in ThreadIds :
          /\ threads[t].pc = "set56"
          /\ theCache' = [theCache EXCEPT
                !.timestamps = With(@, threads[t].key[1], clock)]
          /\ Return(t)
    /\ ThreadFrame

\* invalidate: self._cache.clear(), or self._cache.pop(key, None)
InvalidateValue ==
    /\ \E t \in ThreadIds :
          /\ threads[t].pc = "inv1"
          /\ theCache' = [theCache EXCEPT
                !.cache = IF threads[t].key = None THEN NoEntries
                          ELSE Without(@, threads[t].key[1])]
          /\ Goto(t, "inv2")
    /\ ThreadFrame

\* invalidate: self._timestamps.clear(), or self._timestamps.pop(key, None)
InvalidateTimestamp ==
    /\ \E t \in ThreadIds :
          /\ threads[t].pc = "inv2"
          /\ theCache' = [theCache EXCEPT
                !.timestamps = IF threads[t].key = None THEN NoEntries
                               ELSE Without(@, threads[t].key[1])]
          /\ Return(t)
    /\ ThreadFrame

NextThreads ==
    \/ StartCall
    \/ GetCheckCache
    \/ IsValidCheck
    \/ IsValidElapsed
    \/ GetPopCache
    \/ GetPopTimestamps
    \/ GetReturn
    \/ SetValue
    \/ SetTimestamp
    \/ InvalidateValue
    \/ InvalidateTimestamp
    \/ Tick

SpecThreads == InitThreads /\ [][NextThreads]_vars

\* no thread is inside a call
NoCallInProgress == \A t \in ThreadIds : threads[t].pc = "idle"

\* C20: when several threads interleave get, set and invalidate on one Cache,
\* no call raises, and whenever no call is in progress the value map and the
\* timestamp map hold the same set of keys.
C20_SafeUnderThreads ==
    /\ \A t \in ThreadIds : threads[t].error = "none"
    /\ NoCallInProgress => DOMAIN theCache.cache = DOMAIN theCache.timestamps

(***************************************************************************)
(* The order of the provider calls and of the merge within one call        *)
(***************************************************************************)
\* the positions of the providers argument whose get_all() has been called
ListedFetched == { f.at : f \in { g \in fetched : g.kind = "listed" } }

\* a step calls at most one provider, the one after those already called
C21_OneAtATime ==
    ListedFetched' # ListedFetched =>
        /\ ListedFetched = 1..Cardinality(ListedFetched)
        /\ ListedFetched' = 1..(Cardinality(ListedFetched) + 1)

\* the step in which merger.merge(sources) runs: the call leaves stage 6
\* otherwise than by a provider's error
MergeStep ==
    /\ pc = "providers"
    /\ \/ pc' \in {"expand", "fill", "done"}
       \/ pc' = "raised" /\ raised'.type # "ProviderError"

\* the merge runs after every provider was called and none failed under Fail,
\* and stage 6 is never entered again once left
C21_MergeAfterProviders ==
    /\ MergeStep =>
         /\ ListedFetched = 1..Len(args.providers)
         /\ \A i \in DOMAIN args.providers : ~FailsHard(args.providers[i])
    /\ pc' = "providers" => pc \in {"system", "providers"}
    /\ (pc = "providers" /\ pc' = "providers") =>
         Cardinality(ListedFetched') = Cardinality(ListedFetched) + 1

\* once a Fail-policy provider has raised, no later provider has been called and
\* nothing was merged; a call that returns has called every provider
C21_FailStopsTheCall ==
    /\ \A i \in ListedFetched :
          FailsHard(args.providers[i]) =>
              /\ ListedFetched = 1..i
              /\ pc = "raised"
              /\ merged = EmptyDict
              /\ "cloud_providers" \notin DOMAIN sources
    /\ pc \in {"expand", "fill", "done"} =>
          /\ ListedFetched = 1..Len(args.providers)
          /\ \A i \in DOMAIN args.providers : ~FailsHard(args.providers[i])

\* C21: within one load_env call the providers are called one at a time in list
\* order; once a Fail-policy provider has raised, no later provider is called
\* and the merge is never run; otherwise the merge runs exactly once, after
\* every provider call has returned or had its error absorbed.
C21_ProvidersThenMerge ==
    /\ [][C21_OneAtATime /\ C21_MergeAfterProviders]_vars
    /\ []C21_FailStopsTheCall

\* the first of two providers raised under Fail after the earlier stages had
\* run: the second was never called and nothing was merged
C21_Witness ==
    /\ pc = "raised"
    /\ Len(args.providers) = 2
    /\ FailsHard(args.providers[1])
    /\ args.providers[2].error = None
    /\ ListedFetched = {1}
    /\ "system" \in DOMAIN sources
    /\ merged = EmptyDict

(***************************************************************************)
(* _expand_variables on values that name a variable more than once, and    *)
(* applied a second time to what it returned                               *)
(***************************************************************************)
\* what the context may hold for a variable: text, references to one or two
\* variables, and the pieces "$" and "{A}" of a reference
RepeatValuePool ==
    { <<"1">>,
      Ref(kA),
      Ref(kA) \o Ref(kA),
      Ref(kC),
      <<"$">>,
      <<"{", "A", "}">> }

RepeatChoices == [1..MaxVars -> {None} \cup { Some(v) : v \in RepeatValuePool }]

\* the values expanded: one variable twice, two variables that may lead to the
\* same third, and a "$" in front of a reference
RepeatTopPool ==
    { Ref(kA) \o Ref(kA),
      Ref(kB) \o Ref(kC),
      Ref(kB) \o Ref(kA) \o Ref(kB),
      <<"$">> \o Ref(kC) }

InitRepeat ==
    /\ \E choice \in RepeatChoices : xCtx = ContextFrom(choice, 1)
    /\ xValue \in RepeatTopPool
    /\ xResult = [raised |-> "pending", err |-> None, out |-> << >>]
    /\ xParsed = [raised |-> "pending", err |-> None, vars |-> EmptyDict]
    /\ xAgain = [value |-> None, merged |-> None]
    /\ CacheIdle
    /\ BreakerIdle
    /\ MergeIdle
    /\ PolicyIdle
    /\ LoadIdle

\* _expand_variables(result, env_dict) on the result of the first call
ExpandAgainCall ==
    /\ xResult.raised = "none"
    /\ xAgain.value = None
    /\ LET r == ExpandVariables(xResult.out, xCtx)
       IN  xAgain' = [xAgain EXCEPT !.value = Some([err |-> r.err, out |-> r.out])]
    /\ UNCHANGED <<xValue, xCtx, xResult, xParsed, outsideExpand>>

\* load_env's re-expansion after the merge, the parsed file being all there is
\* to merge
ReExpandCall ==
    /\ xParsed.raised = "none"
    /\ xAgain.merged = None
    /\ xAgain' = [xAgain EXCEPT !.merged = Some(ReExpand(xParsed.vars))]
    /\ UNCHANGED <<xValue, xCtx, xResult, xParsed, outsideExpand>>

NextRepeat == ExpandCall \/ ParseCall \/ ExpandAgainCall \/ ReExpandCall

SpecRepeat == InitRepeat /\ [][NextRepeat]_vars

\* the names a value refers to more than once
RepeatedRefs(v) ==
    { n \in RefsFrom(v, 1) :
        Cardinality({ m \in MatchesFrom(v, 1) : NameAt(v, m) = n }) > 1 }

\* the variables of the context reached from two different direct references
\* of the value
SharedTargets(v, ctx, paths) ==
    { c \in DictKeys(ctx) :
        \E a, b \in DirectRefs(v, ctx) :
            /\ a # b
            /\ <<a, c>> \in paths
            /\ <<b, c>> \in paths }

\* C22: expansion raises the circular-reference error only when a cycle of the
\* context is reachable from the value: a value that refers to the same
\* acyclic variable more than once, directly or through two different
\* variables, expands without error.
C22_RepeatedReferenceIsNoCycle ==
    xResult.raised \notin {"pending", "idle"} =>
        LET paths == RefPaths(xCtx)
        IN  /\ xResult.err # None => ReachesCycle(xValue, xCtx, paths)
            /\ (/\ RepeatedRefs(xValue) \cup SharedTargets(xValue, xCtx, paths) # {}
                /\ ~ReachesCycle(xValue, xCtx, paths))
                  => xResult.raised = "none"

\* ${B}${C} was expanded where B and C both refer to A: A was expanded in
\* both branches
C22_Witness ==
    /\ xValue = Ref(kB) \o Ref(kC)
    /\ xCtx = << <<kA, <<"1">>>>, <<kB, Ref(kA)>>, <<kC, Ref(kA) \o Ref(kA)>> >>
    /\ xResult.raised = "none"
    /\ xResult.out = <<"1", "1", "1">>

(***************************************************************************)
(* How deep _expand_variables recurses                                     *)
(***************************************************************************)
\* the recursion limit beyond which a call counts as not ending: every name of
\* the context in progress at once, the top-level call, and one to spare
DepthLimit(envDict) == Cardinality(DictKeys(envDict)) + 2

NoDepth == [err |-> None, depth |-> 0, exhausted |-> FALSE]

Max(a, b) == IF a >= b THEN a ELSE b

RECURSIVE DepthFrom(_, _, _, _, _)

\* the nested call is made whether or not the name is already in progress
NestedDepth_NoCycleCheck(varName, envDict, visited, fuel) ==
    IF ~DictHas(envDict, varName) THEN NoDepth
    ELSE LET r == DepthFrom(DictGet(envDict, varName), 1, envDict,
                            visited \cup {varName}, fuel - 1)
         IN  [r EXCEPT !.depth = r.depth + 1]

\* replace_var(match): how many calls of _expand_variables are nested below it
NestedDepth(varName, envDict, visited, fuel) ==
    IF varName \in visited THEN [NoDepth EXCEPT !.err = Some(varName)]
    ELSE IF ~DictHas(envDict, varName) THEN NoDepth
    ELSE LET r == DepthFrom(DictGet(envDict, varName), 1, envDict,
                            visited \cup {varName}, fuel - 1)
         IN  [r EXCEPT !.depth = r.depth + 1]

\* _expand_variables scanning value from index i with `fuel` levels of
\* recursion left: the deepest nesting below it, the error that ends it, and
\* whether the levels ran out
DepthFrom(value, i, envDict, visited, fuel) ==
    IF fuel = 0 THEN [NoDepth EXCEPT !.exhausted = TRUE]
    ELSE IF i > Len(value) THEN NoDepth
    ELSE LET j == MatchEnd(value, i)
         IN  IF j = 0 THEN DepthFrom(value, i + 1, envDict, visited, fuel)
             ELSE LET r == NestedDepth(SubSeq(value, i + 2, j - 1), envDict, visited,
                                       fuel)
                  IN  IF r.err # None \/ r.exhausted THEN r
                      ELSE LET rest == DepthFrom(value, j + 1, envDict, visited, fuel)
                           IN  [rest EXCEPT !.depth = Max(r.depth, rest.depth)]

\* the recursion of the call _expand_variables(value, env_dict)
ExpandDepth(value, envDict) == DepthFrom(value, 1, envDict, {}, DepthLimit(envDict))

\* C23: expansion terminates for every finite value and context: each call to
\* _expand_variables returns a string or raises the circular-reference error,
\* nesting no deeper than the number of variables of the context.
C23_ExpansionTerminates ==
    LET d == ExpandDepth(xValue, xCtx)
    IN  /\ ~d.exhausted
        /\ d.depth <= Cardinality(DictKeys(xCtx))
        /\ xResult.raised \notin {"pending", "idle"} =>
              /\ xResult.raised \in {"none", "EnvLoaderError"}
              /\ xResult.err = d.err
              /\ xResult.raised = "none" <=> xResult.err = None

\* a value leading through every variable of the context into a cycle was
\* expanded: the call nested as deep as it can and ended with the error
C23_Witness ==
    /\ xResult.raised = "EnvLoaderError"
    /\ Cardinality(DictKeys(xCtx)) = MaxVars
    /\ ExpandDepth(xValue, xCtx).depth = MaxVars
    /\ ExpandDepth(xValue, xCtx).err # None

\* C24: expansion is idempotent: when expanding a value succeeds, expanding the
\* result again against the same context returns it unchanged, and load_env's
\* re-expansion after the merge does not change what the per-file expansion
\* resolved against the same variables.
C24_ExpansionIdempotent ==
    /\ xAgain.value # None =>
          /\ xAgain.value[1].err = None
          /\ xAgain.value[1].out = xResult.out
    /\ xAgain.merged # None =>
          /\ xAgain.merged[1].err = None
          /\ xAgain.merged[1].vars = xParsed.vars

(***************************************************************************)
(* load_env where the mounted-secret directories exist and may fail to list *)
(***************************************************************************)
sDockerSecretsProvider ==
    <<"D", "o", "c", "k", "e", "r", "S", "e", "c", "r", "e", "t", "s", "P", "r", "o", "v",
      "i", "d", "e", "r">>

sKubernetesSecretsProvider ==
    <<"K", "u", "b", "e", "r", "n", "e", "t", "e", "s", "S", "e", "c", "r", "e", "t", "s",
      "P", "r", "o", "v", "i", "d", "e", "r">>

\* /run/secrets: absent, listing one secret, or failing to list
FailingDockerPool ==
    { NotMounted,
      Mount(TRUE, None, << <<kA, <<"k">>>> >>),
      Mount(TRUE, Some("PermissionError"), EmptyDict) }

\* /etc/secrets and /etc/config: absent, listing one secret, or failing to list
FailingK8sPool ==
    { NotMounted,
      Mount(TRUE, None, << <<kB, <<"q">>>> >>),
      Mount(TRUE, Some("PermissionError"), EmptyDict) }

InitMounts ==
    /\ MergeIdle
    /\ PolicyIdle
    /\ ExpandIdle
    /\ CacheIdle
    /\ BreakerIdle
    /\ args \in [env : {FALSE}, trace : BOOLEAN, audit : BOOLEAN, cache : {FALSE},
                 cache_ttl : {DefaultCacheTtl}, expand_vars : {TRUE},
                 failure_policy : PolicyPool, defaults : {EmptyDict},
                 providers : { << >>, <<ProviderUp(nAws, << <<kC, <<"w">>>> >>)>> },
                 priority : {DefaultPriority}]
    /\ world \in [base : { Some(<< <<kA, <<"b">>>> >>) }, envfile : {None},
                  docker : FailingDockerPool, k8s : FailingK8sPool,
                  environ : EnvironPool, now : {0}]
    /\ Idle

SpecMounts == InitMounts /\ [][Next]_vars

\* get_all() of the mounted-secret provider was called and raised
MountRaised(m) == m.available /\ m.error # None

MountedStageOver == pc \notin {"idle", "start", "defaults", "base", "envfile", "mounted"}

\* C25: an error raised by an auto-detected mounted-secret provider while
\* load_env fetches from it is handled by the provider's failure policy: under
\* the policy Warn (the built-in default for these providers) load_env
\* continues and the provider contributes nothing.
C25_MountedErrorFollowsPolicy ==
    /\ (/\ MountedStageOver
        /\ MountRaised(world.docker)
        /\ GetPolicy(policyManager, sDockerSecretsProvider) = WARN)
          => /\ raised = NoError
             /\ "docker_k8s" \in DOMAIN sources =>
                   sources["docker_k8s"] = MountedVars(world.k8s)
    /\ (/\ MountedStageOver
        /\ ~MountRaised(world.docker)
        /\ MountRaised(world.k8s)
        /\ GetPolicy(policyManager, sKubernetesSecretsProvider) = WARN)
          => /\ raised = NoError
             /\ "docker_k8s" \in DOMAIN sources =>
                   sources["docker_k8s"] = MountedVars(world.docker)

\* the provider of the list that supplied the final value of key k: the last
\* one whose get_all() returned k (0 when none did)
LastProviderWith(k) ==
    LET holders == { i \in DOMAIN args.providers :
                       /\ args.providers[i].error = None
                       /\ DictHas(args.providers[i].values, k) }
    IN  IF holders = {} THEN 0 ELSE CHOOSE i \in holders : \A j \in holders : j <= i

\* the keys whose final value a mounted Kubernetes secret supplied: no listed
\* provider and no environment variable overrides the mount
KeysFromK8s ==
    { k \in DictKeys(MountedVars(world.k8s)) :
        /\ LastProviderWith(k) = 0
        /\ ~DictHas(world.environ, k) }

\* C26: with tracing enabled, a key whose final value was supplied by a
\* provider has, after load_env returns, a recorded origin that identifies that
\* provider's type (aws for an AWS class, azure for Azure, kubernetes for
\* Kubernetes, docker for Docker).
C26_OriginNamesProviderType ==
    (pc = "done" /\ args.trace) =>
        /\ \A k \in DictKeys(providerVars) :
              /\ k \in DOMAIN origins
              /\ origins[k] = ProviderOrigin(args.providers[LastProviderWith(k)].name)
        /\ \A k \in KeysFromK8s :
              /\ k \in DOMAIN origins
              /\ origins[k] = K8S

(***************************************************************************)
(* One CircuitBreaker: record_success, record_failure, should_attempt, and *)
(* time passing                                                            *)
(***************************************************************************)
MaxThreshold == 2

MaxTimeout == 2

\* time.time() of the first call (seconds; never 0 on a running system)
FirstClock == 1

InitBreaker ==
    /\ \E threshold \in 1..MaxThreshold, timeout \in 0..MaxTimeout :
          breaker = NewBreaker(threshold, timeout)
    /\ failures = [count |-> 0, at |-> None]
    /\ attempt = [made |-> FALSE, result |-> TRUE, at |-> 0]
    /\ clock = FirstClock
    /\ theCache = NewCache(DefaultCacheTtl, FALSE)
    /\ lastCall = [op |-> "idle", key |-> None, result |-> None, at |-> 0]
    /\ liveSets = NoEntries
    /\ threads = << >>
    /\ MergeIdle
    /\ PolicyIdle
    /\ ExpandIdle
    /\ LoadIdle

BreakerFrame == UNCHANGED <<cacheVars, loadVars, callVars, mergeVars, policyVars,
                            expansionVars>>

\* breaker.record_success()
RecordSuccessCall ==
    /\ breaker' = RecordSuccess(breaker)
    /\ failures' = [count |-> 0, at |-> None]
    /\ attempt' = [attempt EXCEPT !.made = FALSE]
    /\ BreakerFrame

\* breaker.record_failure(); the count is capped to keep the states finite
RecordFailureCall ==
    /\ breaker.failure_count <= MaxThreshold
    /\ breaker' = RecordFailure(breaker, clock)
    /\ failures' = [count |-> failures.count + 1, at |-> Some(clock)]
    /\ attempt' = [attempt EXCEPT !.made = FALSE]
    /\ BreakerFrame

\* breaker.should_attempt()
ShouldAttemptCall ==
    /\ LET r == ShouldAttempt(breaker, clock)
       IN  /\ breaker' = r.breaker
           /\ attempt' = [made |-> TRUE, result |-> r.result, at |-> clock]
    /\ UNCHANGED failures
    /\ BreakerFrame

NextBreaker == RecordSuccessCall \/ RecordFailureCall \/ ShouldAttemptCall \/ Tick

SpecBreaker == InitBreaker /\ [][NextBreaker]_vars

\* at least failure_threshold failures since the last success, the most
\* recent of them fewer than timeout_seconds before time t
Tripped(t) ==
    /\ failures.count >= breaker.failure_threshold
    /\ t - failures.at[1] < breaker.timeout_seconds

\* C27: for a CircuitBreaker with failure_threshold >= 1, after any sequence of
\* record_success, record_failure and should_attempt calls, should_attempt()
\* returns false when at least failure_threshold failures were recorded since
\* the last success and fewer than timeout_seconds have passed since the most
\* recent failure, and true in every other case.
C27_ShouldAttempt ==
    attempt.made => (attempt.result <=> ~Tripped(attempt.at))

\* should_attempt() returned true on a breaker that had opened, its failures
\* having reached the threshold, exactly timeout_seconds after the last of them
C27_Witness ==
    /\ attempt.made
    /\ attempt.result
    /\ failures.count >= breaker.failure_threshold
    /\ breaker.timeout_seconds > 0
    /\ attempt.at - failures.at[1] = breaker.timeout_seconds
    /\ breaker.state = "half_open"

(***************************************************************************)
(* load_env with providers that return the same key, of one class or two   *)
(***************************************************************************)
\* two objects of one class and one of another, each returning key A
SameKeyPool ==
    { ProviderUp(nVault, << <<kA, <<"1">>>> >>),
      ProviderUp(nVault, << <<kA, <<"2">>>>, <<kB, <<"2">>>> >>),
      ProviderUp(nAws, << <<kA, <<"w">>>> >>) }

InitSameKey ==
    /\ MergeIdle
    /\ PolicyIdle
    /\ ExpandIdle
    /\ CacheIdle
    /\ BreakerIdle
    /\ args \in [env : {FALSE}, trace : BOOLEAN, audit : BOOLEAN, cache : BOOLEAN,
                 cache_ttl : {DefaultCacheTtl}, expand_vars : {TRUE},
                 failure_policy : {None}, defaults : DefaultsPool,
                 providers : SeqsUpTo(SameKeyPool, MaxProviders),
                 priority : {DefaultPriority}]
    /\ world \in [base : BasePool, envfile : {None},
                  docker : {NotMounted}, k8s : {NotMounted},
                  environ : EnvironPool, now : {0}]
    /\ Idle

SpecSameKey == InitSameKey /\ [][Next]_vars

\* C28: when two providers of the list both return a value for the same key,
\* the provider contribution for that key is the value returned by the provider
\* that is later in the list, with the cache on (the default) or off and
\* whatever the providers' classes.
C28_LaterProviderWins ==
    pc \in {"expand", "fill", "done"} =>
        \A k \in DictKeys(providerVars) :
            DictGet(providerVars, k) =
                DictGet(args.providers[LastProviderWith(k)].values, k)

\* the sources of the bundle holding key k, in the order merge applies them
\* (each overriding those before it)
AppliedHolders(k) ==
    SelectSeq(SortedSources(DefaultPriorityOrder),
              LAMBDA n : n \in DOMAIN sources /\ DictHas(sources[n], k))

\* the source whose value for k the merge kept: the last one applied
Supplier(k) == AppliedHolders(k)[Len(AppliedHolders(k))]

\* the origin value that names source n as the supplier of key k
SourceValue(n, k) ==
    CASE n = "schema_defaults" -> SCHEMA_DEFAULT
      [] n = "base_file" -> FILE_BASE
      [] n = "env_specific" -> FILE_ENV_SPECIFIC
      [] n = "docker_k8s" ->
            IF DictHas(MountedVars(world.k8s), k) THEN K8S ELSE DOCKER
      [] n = "system" -> SYSTEM
      [] n = "cloud_providers" ->
            ProviderOrigin(args.providers[LastProviderWith(k)].name)

\* C29: for every key of the configuration returned by load_env with
\* audit=True, the source named by the key's audit entry is the source that
\* supplied the key's final value.
C29_AuditNamesSupplier ==
    (pc = "done" /\ args.audit) =>
        \A k \in DictKeys(merged) \cap DOMAIN auditEntries :
            AppliedHolders(k) # << >> =>
                auditEntries[k].source = SourceValue(Supplier(k), k)

(***************************************************************************)
(* Two PolicyManagers built from the same pairs supplied in two orders     *)
(***************************************************************************)
sVault == <<"v", "a", "u", "l", "t">>

nAzureKeyVaultProvider ==
    <<"A", "z", "u", "r", "e", "K", "e", "y", "V", "a", "u", "l", "t", "P", "r", "o", "v",
      "i", "d", "e", "r">>

\* the provider names policies are configured for
OrderKeyPool == { sAzure, sVault, sAws }

RECURSIVE OrderedDicts(_)
\* the dicts of at most n configured policies, in every insertion order
OrderedDicts(n) ==
    IF n = 0 THEN { EmptyDict }
    ELSE LET shorter == OrderedDicts(n - 1)
         IN  shorter \cup
             { Append(d, <<k, p>>) :
                 d \in { x \in shorter : Len(x) = n - 1 }, k \in OrderKeyPool,
                 p \in {sFail, sWarn, sFallback} }

\* the names handed to get_policy
OrderNamePool == { nAzureKeyVaultProvider, nAws, sVault, <<"R", "e", "d", "i", "s">> }

InitOrder ==
    /\ \E d, e \in { x \in OrderedDicts(MaxPolicies) : UniqueKeys(x) } :
          /\ SeqToSet(d) = SeqToSet(e)
          /\ pmPolicies = Some(d)
          /\ pmOther = [policies |-> Some(e), policy |-> "pending"]
    /\ pmDefault \in { None, Some(FAIL) }
    /\ pmProvider \in OrderNamePool
    /\ pmError = "none"
    /\ pmResult = [policy |-> "pending", handled |-> FALSE, raised |-> NoError]
    /\ MergeIdle
    /\ ExpandIdle
    /\ CacheIdle
    /\ BreakerIdle
    /\ LoadIdle

\* other.get_policy(provider_name), other being built from the reordered pairs
GetPolicyOtherCall ==
    /\ pmOther.policy = "pending"
    /\ pmOther' = [pmOther EXCEPT
                     !.policy = GetPolicy(NewPolicyManager(pmOther.policies, pmDefault),
                                          pmProvider)]
    /\ UNCHANGED <<pmPolicies, pmDefault, pmProvider, pmError, pmResult, outsidePolicy>>

NextOrder == GetPolicyCall \/ GetPolicyOtherCall

SpecOrder == InitOrder /\ [][NextOrder]_vars

\* C30: get_policy(id) depends only on id, the default policy and the set of
\* configured (key, policy) pairs, not on the order in which the pairs were
\* supplied: two managers built from the same pairs in different orders
\* return the same policy for every id.
C30_OrderIndependent ==
    (pmResult.policy \notin {"pending", "idle"} /\ pmOther.policy \notin {"pending", "idle"})
        => pmResult.policy = pmOther.policy

====
